---- MODULE Spec2Model ----
(***************************************************************************)
(* A model of the telegram task bot: the entity store (database.py), the   *)
(* chat handlers that mutate tasks (bot.py), the hourly deadline sweep     *)
(* check_deadlines (bot.py) and the pure helpers of utils.py.              *)
(*                                                                         *)
(* Time is counted in whole hours.  A Python value that may be None is     *)
(* None (the empty tuple) or Some(v) (a one-element tuple).                *)
(***************************************************************************)
EXTENDS Integers, Sequences, FiniteSets, TLC

\* ------------------------------------------------------------------ bounds
MaxTasks == 2       \* task rows alive at once (ids 1..MaxTasks)
MaxNow == 1         \* the clock runs from 0 to MaxNow hours
MaxEvents == 3      \* chat events (handler runs) in one behaviour
MaxCategories == 2  \* category rows alive at once
MaxSubtasks == 2    \* subtask rows alive at once
MaxOps == 3         \* store operations called in one behaviour of SpecStore
MaxPad == 2         \* whitespace characters on either side of a typed title
MaxCompleted == 4   \* completed tasks in a table given to get_user_statistics
MaxPending == 2     \* pending tasks of one kind of deadline in such a table
MaxOther == 1       \* tasks of each other kind in such a table
MaxCalls == 3       \* store operations begun in one behaviour of SpecSession
MaxKind == 1        \* tasks of one kind in a table given to the helper
MaxFill == 16       \* urgent tasks due late in a table given to the helper
MaxPatches == 2     \* update_task calls in one behaviour of SpecUpdate
MaxKeys == 2        \* keyword arguments in one update_task call of SpecUpdate
MaxChat == 6        \* updates one chat sends in one behaviour of SpecChat

\* ------------------------------------------------------- program constants
Hours == 24         \* check_deadlines: get_tasks_due_soon(hours=24)
DayHours == 24      \* timedelta.days counts whole days of 24 hours
TierStep == 1000    \* get_task_priority_score: rank * 1000
DayWeight == 10     \* get_task_priority_score: 10 per day until the deadline
DayCap == 30        \* get_task_priority_score: min(days_until, 30)
ProgressBonus == 5  \* get_task_priority_score: score -= 5
MinTitle == 3       \* validate_title: len(title) < 3
MaxTitle == 255     \* validate_title: len(title) > 255
MinCategoryName == 2    \* category_name, category_rename: len(name) < 2
MaxCategoryName == 100  \* category_name, category_rename: len(name) > 100
AdviceLimit == 10   \* get_advice: tasks[:10]
PlanDayLimit == 15  \* plan_day: pending[:15]
DatetimeMax == 9999 \* plan_day: datetime.max, later than every deadline

\* ------------------------------------------------------------ input sets
\* Telegram accounts that talk to the bot.  1 is also a value the store uses
\* as a primary key, 7 is not the primary key of any user that owns a task.
TelegramIds == {1, 7}

None == << >>
Some(v) == << v >>

Statuses == {"pending", "in_progress", "completed", "cancelled"}
Priorities == {"urgent", "high", "medium", "low"}

\* Instants a deadline text can denote: on the edge of the 24 h window when
\* the clock is 0, and one hour outside it.
DeadlineTimes == {Hours, Hours + 1}

\* A datetime object: its instant, and whether it carries a tzinfo.
Aware(t) == [t |-> t, aware |-> TRUE]
Naive(t) == [t |-> t, aware |-> FALSE]

\* A message text sent in a deadline step: "/skip", a parseable date or junk.
SkipText == [kind |-> "skip", t |-> 0]
JunkText == [kind |-> "junk", t |-> 0]
DateText(t) == [kind |-> "date", t |-> t]
DeadlineTexts == {SkipText, JunkText} \cup {DateText(t) : t \in DeadlineTimes}

NewTitles == {"abc"}
EditTitles == {"xyz"}
EditDescriptions == {"note"}
NewPriorities == {"medium"}
EditPriorities == {"urgent"}
CategoryIds == {1}

\* Columns of Task that update_task can be asked to set.
TaskColumns ==
    {"user_id", "category_id", "title", "description", "status", "priority",
     "deadline", "reminder_sent", "completed_at"}
\* Columns of Task whose value may be NULL (models.py: nullable / no default).
NullableColumns == {"category_id", "description", "deadline", "completed_at"}

\* ------------------------------------------------------------------ state
VARIABLES
    users,      \* users[i] = telegram_id of the User row with id i
    tasks,      \* task id -> Task row, for the rows that exist
    now,        \* the clock, in hours (datetime.utcnow())
    events,     \* chat events handled so far
    pc,         \* check_deadlines: "idle", or the await it is at
    selected,   \* check_deadlines: the rows get_tasks_due_soon returned
    idx,        \* check_deadlines: index in selected of the current task
    results,    \* check_deadlines: outcome of each task already left behind
    quiet,      \* no handler ran and no time passed since the running sweep began
    sentPrev,   \* ids the last finished sweep dispatched, if nothing happened since it began
    arg,        \* the Task object handed to a function called on its own
    out,        \* what that function returned
    categories, \* category id -> Category row, for the rows that exist
    subtasks,   \* subtask id -> Subtask row, for the rows that exist
    fsm,        \* telegram_id -> the FSM state and data of that user's chat
    session     \* connection -> the unit of work open on it, if any

vars == << users, tasks, now, events, pc, selected, idx, results, quiet, sentPrev, arg, out,
           categories, subtasks, fsm, session >>
sweepVars == << pc, selected, idx, results >>
callVars == << arg, out >>
catalogVars == << categories, subtasks >>

\* FSMContext after state.clear(): no state, no data.
NoConversation == [ state |-> "none", data |-> << >> ]

\* The connections two concurrent callers hold, with no unit of work open.
Connections == 1..2
NoSessions == [ c \in Connections |-> << >> ]

\* ------------------------------------------------------------- utilities
Max(S) == CHOOSE x \in S : \A y \in S : y <= x
Without(f, x) == [ y \in DOMAIN f \ {x} |-> f[y] ]
With(f, x, v) == [ y \in DOMAIN f \cup {x} |-> IF y = x THEN v ELSE f[y] ]
\* The ids S as the sequence a table scan returns them: by ascending rowid.
RECURSIVE Ascending(_)
Ascending(S) ==
    IF S = {} THEN << >>
    ELSE Append(Ascending(S \ {Max(S)}), Max(S))

\* ------------------------------------------------- database.py: User rows
\* select(User).where(User.telegram_id == telegram_id); add the row if absent.
GetOrCreateUser(U, telegram_id) ==
    IF \E i \in 1..Len(U) : U[i] = telegram_id THEN U ELSE Append(U, telegram_id)

\* The id of the row get_or_create_user returns.
UserIdOf(U, telegram_id) ==
    CHOOSE i \in 1..Len(GetOrCreateUser(U, telegram_id)) :
        GetOrCreateUser(U, telegram_id)[i] = telegram_id

\* ------------------------------------------------- database.py: Task rows
\* The primary key the store gives a new row: one more than the largest in
\* use (the default database is SQLite, Integer primary_key without
\* AUTOINCREMENT), so the id of a deleted last row is given out again.
NewTaskId(T) == IF DOMAIN T = {} THEN 1 ELSE Max(DOMAIN T) + 1

\* What a DateTime column keeps of a datetime: the column is declared without
\* timezone=True, so the tzinfo is dropped and the value is read back naive.
StoreDatetime(dt) == dt.t
LoadDatetime(t) == Naive(t)

\* An optional datetime as the column holds it.
ToColumn(deadline) == IF deadline = None THEN None ELSE Some(StoreDatetime(deadline[1]))

\* Task(...) with the column defaults of models.py, added and flushed.
CreateTask(T, user_id, title, description, priority, category_id, deadline) ==
    With(T, NewTaskId(T),
         [ user_id       |-> user_id,
           category_id   |-> category_id,
           title         |-> title,
           description   |-> description,
           status        |-> "pending",
           priority      |-> priority,
           deadline      |-> ToColumn(deadline),
           reminder_sent |-> FALSE,
           completed_at  |-> None ])

\* What setattr(task, key, value) stores: value is Some(v) here, never None.
Stored(key, value) ==
    IF key = "deadline" THEN ToColumn(value)
    ELSE IF key \in NullableColumns THEN value
    ELSE value[1]

\* ApplyKwargs as a "reschedule" would have it: a new deadline clears the flag.
ApplyKwargsRearming(row, kwargs) ==
    [ key \in DOMAIN row |->
        IF key \in DOMAIN kwargs /\ key \in TaskColumns /\ kwargs[key] # None
        THEN Stored(key, kwargs[key])
        ELSE IF key = "reminder_sent" /\ "deadline" \in DOMAIN kwargs /\ kwargs["deadline"] # None
        THEN FALSE
        ELSE row[key] ]

\* ApplyKwargs with "and value" for "and value is not None": an empty string
\* and a zero are skipped as None is.
ApplyKwargsTruthy(row, kwargs) ==
    [ key \in DOMAIN row |->
        IF key \in DOMAIN kwargs /\ key \in TaskColumns /\ kwargs[key] # None
           /\ (IF key \in {"title", "description"} THEN kwargs[key] # Some("")
               ELSE IF key = "category_id" THEN kwargs[key] # Some(0)
               ELSE TRUE)
        THEN Stored(key, kwargs[key])
        ELSE row[key] ]

\* The row after the loop over kwargs.items(): a key is applied when the row
\* has the attribute and the value is not None.
ApplyKwargs(row, kwargs) ==
    [ key \in DOMAIN row |->
        IF key \in DOMAIN kwargs /\ key \in TaskColumns /\ kwargs[key] # None
        THEN Stored(key, kwargs[key])
        ELSE row[key] ]

\* StampCompleted that also clears the stamp when another status is supplied.
StampCompletedOrClear(row, kwargs, t) ==
    IF "status" \in DOMAIN kwargs /\ kwargs["status"] = Some("completed")
    THEN (IF row.completed_at = None THEN [ row EXCEPT !.completed_at = Some(t) ] ELSE row)
    ELSE IF "status" \in DOMAIN kwargs /\ kwargs["status"] # None
         THEN [ row EXCEPT !.completed_at = None ]
         ELSE row

\* StampCompleted without the "and not task.completed_at" test.
StampCompletedAlways(row, kwargs, t) ==
    IF "status" \in DOMAIN kwargs /\ kwargs["status"] = Some("completed")
    THEN [ row EXCEPT !.completed_at = Some(t) ]
    ELSE row

\* if kwargs.get('status') == 'completed' and not task.completed_at
StampCompleted(row, kwargs, t) ==
    IF /\ "status" \in DOMAIN kwargs
       /\ kwargs["status"] = Some("completed")
       /\ row.completed_at = None
    THEN [ row EXCEPT !.completed_at = Some(t) ]
    ELSE row

\* update_task(task_id, user_id, **kwargs) at time t: the table afterwards.
UpdateTask(T, task_id, user_id, kwargs, t) ==
    IF task_id \in DOMAIN T /\ T[task_id].user_id = user_id
    THEN [ T EXCEPT ![task_id] = StampCompleted(ApplyKwargs(T[task_id], kwargs), kwargs, t) ]
    ELSE T

\* delete_task(task_id, user_id): the table afterwards.
DeleteTask(T, task_id, user_id) ==
    IF task_id \in DOMAIN T /\ T[task_id].user_id = user_id
    THEN Without(T, task_id)
    ELSE T

\* DueSoon with "<" where the query has "<=".
DueSoonStrict(row, hours, t) ==
    /\ row.status = "pending"
    /\ row.deadline # None
    /\ row.deadline[1] < t + hours
    /\ row.reminder_sent = FALSE

\* DueSoon without "Task.reminder_sent == False".
DueSoonAgain(row, hours, t) ==
    /\ row.status = "pending"
    /\ row.deadline # None
    /\ row.deadline[1] <= t + hours

\* The WHERE clause of get_tasks_due_soon for one row, at time t.
DueSoon(row, hours, t) ==
    /\ row.status = "pending"
    /\ row.deadline # None
    /\ row.deadline[1] <= t + hours
    /\ row.reminder_sent = FALSE

\* get_tasks_due_soon(hours) at time t: the ids of the rows returned.
GetTasksDueSoon(T, hours, t) == { id \in DOMAIN T : DueSoon(T[id], hours, t) }

\* MarkReminderSent if the Task object the sweep selected were written back:
\* the row gets the status it was selected with, pending.
MarkReminderSentMerging(T, task_id) ==
    IF task_id \in DOMAIN T
    THEN [ T EXCEPT ![task_id].reminder_sent = TRUE, ![task_id].status = "pending" ]
    ELSE T

\* mark_reminder_sent(task_id): the table afterwards (no owner check).
MarkReminderSent(T, task_id) ==
    IF task_id \in DOMAIN T
    THEN [ T EXCEPT ![task_id].reminder_sent = TRUE ]
    ELSE T

\* -------------------------------------- database.py: the other operations
\* The primary key of a new row of any table (see NewTaskId).
NewRowId(R) == IF DOMAIN R = {} THEN 1 ELSE Max(DOMAIN R) + 1

\* select(Task).where(and_(Task.id == task_id, Task.user_id == user_id))
TaskFound(T, task_id, user_id) ==
    task_id \in DOMAIN T /\ T[task_id].user_id = user_id

\* get_task_by_id(task_id, user_id): scalar_one_or_none().
GetTaskById(T, task_id, user_id) ==
    IF TaskFound(T, task_id, user_id) THEN Some(T[task_id]) ELSE None

\* delete_task: session.delete(task) takes the task's subtasks with it
\* (Task.subtasks has cascade="all, delete-orphan").
DeleteTaskSubtasks(S, T, task_id, user_id) ==
    IF TaskFound(T, task_id, user_id)
    THEN [ id \in { i \in DOMAIN S : S[i].task_id # task_id } |-> S[id] ]
    ELSE S

\* create_category(user_id, name, color)
CreateCategory(C, user_id, name, color) ==
    With(C, NewRowId(C), [ user_id |-> user_id, name |-> name, color |-> color ])

\* select(Category).where(and_(Category.id == category_id, Category.user_id == user_id))
CategoryFound(C, category_id, user_id) ==
    category_id \in DOMAIN C /\ C[category_id].user_id = user_id

\* get_category_by_id(category_id, user_id)
GetCategoryById(C, category_id, user_id) ==
    IF CategoryFound(C, category_id, user_id) THEN Some(C[category_id]) ELSE None

\* update_category(category_id, user_id, **kwargs): the table afterwards.
UpdateCategory(C, category_id, user_id, kwargs) ==
    IF CategoryFound(C, category_id, user_id)
    THEN [ C EXCEPT ![category_id] =
             [ key \in DOMAIN C[category_id] |->
                 IF key \in DOMAIN kwargs /\ kwargs[key] # None
                 THEN kwargs[key][1] ELSE C[category_id][key] ] ]
    ELSE C

\* delete_category(category_id, user_id): the categories afterwards.
DeleteCategory(C, category_id, user_id) ==
    IF CategoryFound(C, category_id, user_id) THEN Without(C, category_id) ELSE C

\* DeleteCategoryTasks if Category.tasks had a delete cascade.
DeleteCategoryTasksCascading(T, C, category_id, user_id) ==
    IF category_id \in DOMAIN C /\ C[category_id].user_id = user_id
    THEN [ id \in { i \in DOMAIN T : T[i].category_id # Some(category_id) } |-> T[id] ]
    ELSE T

\* delete_category: the tasks afterwards.  Category.tasks has no delete
\* cascade, so the flush of session.delete(category) sets category_id to NULL
\* in every task that referenced the category.
DeleteCategoryTasks(T, C, category_id, user_id) ==
    IF CategoryFound(C, category_id, user_id)
    THEN [ id \in DOMAIN T |->
             IF T[id].category_id = Some(category_id)
             THEN [ T[id] EXCEPT !.category_id = None ]
             ELSE T[id] ]
    ELSE T

\* create_subtask(task_id, title).  The default database is SQLite, which
\* does not enforce foreign keys unless asked to, so any task_id is stored.
CreateSubtask(S, task_id, title) ==
    With(S, NewRowId(S), [ task_id |-> task_id, title |-> title, is_completed |-> FALSE ])

\* select(Subtask).where(Subtask.id == subtask_id)
SubtaskFound(S, subtask_id) == subtask_id \in DOMAIN S

\* toggle_subtask(subtask_id): the table afterwards.
ToggleSubtask(S, subtask_id) ==
    IF SubtaskFound(S, subtask_id)
    THEN [ S EXCEPT ![subtask_id].is_completed = ~S[subtask_id].is_completed ]
    ELSE S

\* ------------------------------------------------------- utils.py helpers
\* parse_deadline(text): None when dateutil cannot parse it, else the instant
\* with tzinfo UTC.
ParseDeadline(text) == IF text.kind = "date" THEN Some(Aware(text.t)) ELSE None

\* datetime - datetime raises TypeError when exactly one of the two is naive.
MinusRaises(a, b) == a.aware # b.aware

\* (a - b).days: whole days, rounded towards minus infinity.
DaysBetween(a, b) == (a.t - b.t) \div DayHours

Min2(a, b) == IF a < b THEN a ELSE b
Max2(a, b) == IF a > b THEN a ELSE b

\* priority_scores.get(task.priority, 2)
PriorityRank(priority) ==
    CASE priority = "urgent" -> 0
      [] priority = "high"   -> 1
      [] priority = "medium" -> 2
      [] priority = "low"    -> 3
      [] OTHER               -> 2

\* get_task_priority_score(task) when datetime.now(pytz.UTC) is nowDt: whether
\* it raised, and the score it returned if it did not.  task.deadline is None
\* or Some(datetime).
GetTaskPriorityScore(task, nowDt) ==
    IF task.deadline # None /\ MinusRaises(task.deadline[1], nowDt)
    THEN [ raised |-> TRUE, score |-> 0 ]
    ELSE [ raised |-> FALSE,
           score  |-> PriorityRank(task.priority) * TierStep
                      + (IF task.deadline # None
                         THEN Max2(0, Min2(DaysBetween(task.deadline[1], nowDt), DayCap)) * DayWeight
                         ELSE 0)
                      - (IF task.status = "in_progress" THEN ProgressBonus ELSE 0) ]

\* ------------------------------------------------------------------- Init
Init ==
    /\ users = << >>
    /\ tasks = << >>
    /\ now = 0
    /\ events = 0
    /\ pc = "idle"
    /\ selected = << >>
    /\ idx = 1
    /\ results = << >>
    /\ quiet = TRUE
    /\ sentPrev = {}
    /\ arg = None
    /\ out = None
    /\ categories = << >>
    /\ subtasks = << >>
    /\ fsm = [ g \in TelegramIds |-> NoConversation ]
    /\ session = NoSessions

TaskIds == 1..MaxTasks

\* A handler ran or the clock moved: the two sweeps around it are no longer
\* "in succession with no intervening state change".  check_deadlines runs on
\* the same event loop, so this happens only while it is not running or is
\* suspended at one of its awaits, never between its last await and its return.
Disturbed == pc # "return" /\ quiet' = (pc = "idle") /\ sentPrev' = {}

\* One more chat event is handled.
Event == events < MaxEvents /\ events' = events + 1 /\ Disturbed

\* ---------------------------------------------------------- bot.py handlers
\* Every handler is taken for the sender from_user.id = g.  The id a callback
\* or the conversation data carries is whatever the client sent, so task_id
\* ranges over ids of rows that exist and of rows that do not.

\* /start: register the sender.
CmdStart(g) ==
    /\ users' = GetOrCreateUser(users, g)
    /\ Event
    /\ UNCHANGED << tasks, now, sweepVars, callVars, catalogVars, fsm, session >>

\* TaskStates.deadline: the last step of the wizard, which writes the task.
AddTaskDeadline(g, title, description, priority, category_id, text) ==
    /\ \/ /\ text.kind # "skip" /\ ParseDeadline(text) = None
          /\ UNCHANGED << users, tasks >>
       \/ /\ text.kind = "skip" \/ ParseDeadline(text) # None
          /\ NewTaskId(tasks) <= MaxTasks
          /\ users' = GetOrCreateUser(users, g)
          /\ tasks' = CreateTask(tasks, UserIdOf(users, g), title, description,
                                 priority, category_id,
                                 IF text.kind = "skip" THEN None ELSE ParseDeadline(text))
    /\ Event
    /\ UNCHANGED << now, sweepVars, callVars, catalogVars, fsm, session >>

\* task_complete_<id>
CompleteTask(g, task_id) ==
    /\ users' = GetOrCreateUser(users, g)
    /\ tasks' = UpdateTask(tasks, task_id, UserIdOf(users, g),
                           "status" :> Some("completed"), now)
    /\ Event
    /\ UNCHANGED << now, sweepVars, callVars, catalogVars, fsm, session >>

\* ProgressTask as a toggle: a task in progress goes back to pending.
ProgressTaskToggling(g, task_id) ==
    /\ users' = GetOrCreateUser(users, g)
    /\ tasks' = UpdateTask(tasks, task_id, UserIdOf(users, g),
                           "status" :> Some(IF task_id \in DOMAIN tasks
                                                /\ tasks[task_id].status = "in_progress"
                                             THEN "pending" ELSE "in_progress"), now)
    /\ Event
    /\ UNCHANGED << now, sweepVars, callVars, catalogVars, fsm, session >>

\* task_progress_<id>
ProgressTask(g, task_id) ==
    /\ users' = GetOrCreateUser(users, g)
    /\ tasks' = UpdateTask(tasks, task_id, UserIdOf(users, g),
                           "status" :> Some("in_progress"), now)
    /\ Event
    /\ UNCHANGED << now, sweepVars, callVars, catalogVars, fsm, session >>

\* confirm_delete_task_<id>
ConfirmDeleteTask(g, task_id) ==
    /\ users' = GetOrCreateUser(users, g)
    /\ tasks' = DeleteTask(tasks, task_id, UserIdOf(users, g))
    /\ subtasks' = DeleteTaskSubtasks(subtasks, tasks, task_id, UserIdOf(users, g))
    /\ Event
    /\ UNCHANGED << now, sweepVars, callVars, categories, fsm, session >>

\* EditTaskStates.title, with a title validate_title accepted.
EditTitleMessage(g, task_id, title) ==
    /\ users' = GetOrCreateUser(users, g)
    /\ tasks' = UpdateTask(tasks, task_id, UserIdOf(users, g),
                           "title" :> Some(title), now)
    /\ Event
    /\ UNCHANGED << now, sweepVars, callVars, catalogVars, fsm, session >>

\* EditTaskStates.description: description is None for "/skip".
EditDescriptionMessage(g, task_id, description) ==
    /\ users' = GetOrCreateUser(users, g)
    /\ tasks' = UpdateTask(tasks, task_id, UserIdOf(users, g),
                           "description" :> description, now)
    /\ Event
    /\ UNCHANGED << now, sweepVars, callVars, catalogVars, fsm, session >>

\* EditTaskStates.priority, callback priority_<tier>
EditPrioritySelect(g, task_id, priority) ==
    /\ users' = GetOrCreateUser(users, g)
    /\ tasks' = UpdateTask(tasks, task_id, UserIdOf(users, g),
                           "priority" :> Some(priority), now)
    /\ Event
    /\ UNCHANGED << now, sweepVars, callVars, catalogVars, fsm, session >>

\* EditTaskStates.deadline: "/skip" asks for None, junk is refused.
EditDeadlineMessage(g, task_id, text) ==
    /\ \/ /\ text.kind # "skip" /\ ParseDeadline(text) = None
          /\ UNCHANGED << users, tasks >>
       \/ /\ text.kind = "skip" \/ ParseDeadline(text) # None
          /\ users' = GetOrCreateUser(users, g)
          /\ tasks' = UpdateTask(tasks, task_id, UserIdOf(users, g),
                                 "deadline" :> (IF text.kind = "skip" THEN None
                                                ELSE ParseDeadline(text)), now)
    /\ Event
    /\ UNCHANGED << now, sweepVars, callVars, catalogVars, fsm, session >>

\* EditTaskStates.category, callback set_category_<id> or set_category_none
EditCategorySelect(g, task_id, category_id) ==
    /\ users' = GetOrCreateUser(users, g)
    /\ tasks' = UpdateTask(tasks, task_id, UserIdOf(users, g),
                           "category_id" :> category_id, now)
    /\ Event
    /\ UNCHANGED << now, sweepVars, callVars, catalogVars, fsm, session >>

\* One hour passes.
Tick ==
    /\ now < MaxNow
    /\ now' = now + 1
    /\ Disturbed
    /\ UNCHANGED << users, tasks, events, sweepVars, callVars, catalogVars, fsm, session >>

\* ------------------------------------------------- bot.py: check_deadlines
\* What the loop keeps of a selected row: the Task object is detached from
\* its session, so these are the values read when it was selected.
Snapshot(T, id) == [ id |-> id, user_id |-> T[id].user_id, deadline |-> T[id].deadline ]

\* The list check_deadlines iterates: result.scalars().all() of the query.
SelectedRows(T, hours, t) ==
    [ k \in 1..Cardinality(GetTasksDueSoon(T, hours, t)) |->
        Snapshot(T, Ascending(GetTasksDueSoon(T, hours, t))[k]) ]

\* bot.send_message(chat_id=task.user_id, ...): the chat the message goes to.
ChatIdOf(task) == task.user_id

\* Telegram delivers only to a chat that exists; any delivery may also fail.
Deliverable(chat_id) == chat_id \in TelegramIds

\* for task in tasks: where control goes after the task at index i of n.
LoopNext(i, n) == IF i + 1 > n THEN "return" ELSE "user"

\* ExceptNext if the exception left the loop.
ExceptAborts(i, n) == "return"

\* except Exception as e: logger.error(...) - the loop goes on.
ExceptNext(i, n) == LoopNext(i, n)

\* ExceptStore if the reminder were marked whatever the outcome.
ExceptStoreMarks(T, task_id) ==
    IF task_id \in DOMAIN T THEN [ T EXCEPT ![task_id].reminder_sent = TRUE ] ELSE T

\* The table after the except branch ran for a task: it only logs.
ExceptStore(T, task_id) == T

Cur == selected[idx]

\* An entry of results: was the message sent, to which chat, did
\* mark_reminder_sent return, and which call raised ("none" if none did).
Entry(sent, chat, marked, raised) ==
    [ sent |-> sent, chat |-> chat, marked |-> marked, raised |-> raised ]

\* tasks = await get_tasks_due_soon(hours=24); the loop starts.
SweepStart ==
    /\ pc = "idle"
    /\ selected' = SelectedRows(tasks, Hours, now)
    /\ pc' = LoopNext(0, Len(selected'))
    /\ idx' = 1
    /\ results' = << >>
    /\ quiet' = TRUE
    /\ UNCHANGED << users, tasks, now, events, sentPrev, callVars, catalogVars, fsm, session >>

\* user = await get_or_create_user(telegram_id=task.user_id)
SweepGetUser ==
    /\ pc = "user"
    /\ users' = GetOrCreateUser(users, Cur.user_id)
    /\ pc' = "send"
    /\ UNCHANGED << tasks, now, events, selected, idx, results, quiet, sentPrev, callVars, catalogVars, fsm, session >>

\* get_or_create_user raised (its unit of work rolled back).
SweepGetUserFails ==
    /\ pc = "user"
    /\ results' = Append(results, Entry(FALSE, None, FALSE, "get_or_create_user"))
    /\ tasks' = ExceptStore(tasks, Cur.id)
    /\ pc' = ExceptNext(idx, Len(selected))
    /\ idx' = idx + 1
    /\ UNCHANGED << users, now, events, selected, quiet, sentPrev, callVars, catalogVars, fsm, session >>

\* await bot.send_message(...) returned: the message is out.
SweepSend ==
    /\ pc = "send"
    /\ Deliverable(ChatIdOf(Cur))
    /\ pc' = "mark"
    /\ UNCHANGED << users, tasks, now, events, selected, idx, results, quiet, sentPrev, callVars, catalogVars, fsm, session >>

\* await bot.send_message(...) raised.
SweepSendFails ==
    /\ pc = "send"
    /\ results' = Append(results, Entry(FALSE, None, FALSE, "send_message"))
    /\ tasks' = ExceptStore(tasks, Cur.id)
    /\ pc' = ExceptNext(idx, Len(selected))
    /\ idx' = idx + 1
    /\ UNCHANGED << users, now, events, selected, quiet, sentPrev, callVars, catalogVars, fsm, session >>

\* await mark_reminder_sent(task.id) returned.
SweepMark ==
    /\ pc = "mark"
    /\ tasks' = MarkReminderSent(tasks, Cur.id)
    /\ results' = Append(results, Entry(TRUE, Some(ChatIdOf(Cur)), TRUE, "none"))
    /\ pc' = LoopNext(idx, Len(selected))
    /\ idx' = idx + 1
    /\ UNCHANGED << users, now, events, selected, quiet, sentPrev, callVars, catalogVars, fsm, session >>

\* mark_reminder_sent raised (its unit of work rolled back).
SweepMarkFails ==
    /\ pc = "mark"
    /\ results' = Append(results, Entry(TRUE, Some(ChatIdOf(Cur)), FALSE, "mark_reminder_sent"))
    /\ tasks' = ExceptStore(tasks, Cur.id)
    /\ pc' = ExceptNext(idx, Len(selected))
    /\ idx' = idx + 1
    /\ UNCHANGED << users, now, events, selected, quiet, sentPrev, callVars, catalogVars, fsm, session >>

\* The loop is over and check_deadlines returns; its locals are gone.
SweepReturn ==
    /\ pc = "return"
    /\ pc' = "idle"
    /\ sentPrev' = IF quiet
                   THEN { selected[k].id : k \in { j \in DOMAIN results : results[j].sent } }
                   ELSE {}
    /\ selected' = << >>
    /\ idx' = 1
    /\ results' = << >>
    /\ quiet' = TRUE
    /\ UNCHANGED << users, tasks, now, events, callVars, catalogVars, fsm, session >>

\* ------------------------------------------------------------------- Next
Handlers ==
    \E g \in TelegramIds :
        \/ CmdStart(g)
        \/ \E text \in DeadlineTexts :
              AddTaskDeadline(g, CHOOSE x \in NewTitles : TRUE, None,
                              CHOOSE x \in NewPriorities : TRUE, None, text)
        \/ \E task_id \in TaskIds :
              \/ CompleteTask(g, task_id)
              \/ ProgressTask(g, task_id)
              \/ ConfirmDeleteTask(g, task_id)
              \/ \E title \in EditTitles : EditTitleMessage(g, task_id, title)
              \/ \E d \in {None} \cup { Some(x) : x \in EditDescriptions } :
                    EditDescriptionMessage(g, task_id, d)
              \/ \E p \in EditPriorities : EditPrioritySelect(g, task_id, p)
              \/ \E text \in DeadlineTexts : EditDeadlineMessage(g, task_id, text)
              \/ \E c \in {None} \cup { Some(x) : x \in CategoryIds } :
                    EditCategorySelect(g, task_id, c)

Sweep ==
    \/ SweepStart
    \/ SweepGetUser
    \/ SweepGetUserFails
    \/ SweepSend
    \/ SweepSendFails
    \/ SweepMark
    \/ SweepMarkFails
    \/ SweepReturn

Next == Handlers \/ Sweep \/ Tick

Spec == Init /\ [][Next]_vars

\* --------------------------------------------- functions called on their own
\* Instants of the deadlines handed to them: now, the edge of the 24 h window
\* and its neighbours, and 30 and 40 days out.
CallTimes ==
    {0, Hours - 1, Hours, Hours + 1, Hours + 2, DayCap * DayHours, (DayCap + 10) * DayHours}

\* The Task objects handed to them: every status, no deadline or a deadline
\* that is aware (as parse_deadline made it) or naive (as the store returns it).
TaskObjects ==
    [ status        : Statuses,
      deadline      : {None} \cup { Some(Aware(t)) : t \in CallTimes }
                             \cup { Some(LoadDatetime(StoreDatetime(Aware(t)))) : t \in CallTimes },
      reminder_sent : BOOLEAN ]

\* The table that holds the object as its only row.
Persisted(object) ==
    [ CreateTask(<< >>, 1, "abc", None, "medium", None, object.deadline)
        EXCEPT ![1].status = object.status,
               ![1].reminder_sent = object.reminder_sent ]

\* The object with the given priority tier.
WithPriority(object, priority) ==
    [ priority |-> priority, status |-> object.status, deadline |-> object.deadline ]

InitCall ==
    /\ users = << >>
    /\ tasks = << >>
    /\ now \in 0..MaxNow
    /\ events = 0
    /\ pc = "idle"
    /\ selected = << >>
    /\ idx = 1
    /\ results = << >>
    /\ quiet = TRUE
    /\ sentPrev = {}
    /\ arg \in TaskObjects
    /\ out = None
    /\ categories = << >>
    /\ subtasks = << >>
    /\ fsm = [ g \in TelegramIds |-> NoConversation ]
    /\ session = NoSessions

\* get_tasks_due_soon(24) on the table that holds arg.
CallGetTasksDueSoon ==
    /\ out = None
    /\ out' = [ fn |-> "get_tasks_due_soon",
                value |-> GetTasksDueSoon(Persisted(arg), Hours, now) ]
    /\ UNCHANGED << users, tasks, now, events, sweepVars, quiet, sentPrev, arg, catalogVars, fsm, session >>

\* get_task_priority_score on arg in each of the four tiers.
CallGetTaskPriorityScore ==
    /\ out = None
    /\ out' = [ fn |-> "get_task_priority_score",
                value |-> [ p \in Priorities |->
                              GetTaskPriorityScore(WithPriority(arg, p), Aware(now)) ] ]
    /\ UNCHANGED << users, tasks, now, events, sweepVars, quiet, sentPrev, arg, catalogVars, fsm, session >>

\* Hours from now to a deadline: an hour and a day ago, now, within the first
\* day, whole days up to the cap, just over it and 40 days out.
DeadlineOffsets ==
    { 0 - DayHours - 1, 0 - 1, 0, 1, DayHours, 2 * DayHours, (DayCap - 1) * DayHours,
      DayCap * DayHours, DayCap * DayHours + 1, (DayCap + 1) * DayHours,
      (DayCap + 10) * DayHours }

\* arg with its deadline moved to the given instant, aware or naive as it was.
WithDeadlineAt(object, priority, t) ==
    [ priority |-> priority, status |-> object.status,
      deadline |-> Some([ object.deadline[1] EXCEPT !.t = t ]) ]

\* arg without a deadline.
WithoutDeadline(object, priority) ==
    [ priority |-> priority, status |-> object.status, deadline |-> None ]

\* get_task_priority_score on arg with its deadline at each offset from now,
\* and on arg without a deadline (the tier base), in each tier.
CallScoreByDeadline ==
    /\ out = None
    /\ arg.deadline # None
    /\ out' = [ fn |-> "score_by_deadline",
                base |-> [ p \in Priorities |->
                             GetTaskPriorityScore(WithoutDeadline(arg, p), Aware(now)) ],
                value |-> [ p \in Priorities |-> [ o \in DeadlineOffsets |->
                             GetTaskPriorityScore(WithDeadlineAt(arg, p, now + o),
                                                  Aware(now)) ] ] ]
    /\ UNCHANGED << users, tasks, now, events, sweepVars, quiet, sentPrev, arg, catalogVars, fsm, session >>

\* arg in the given tier and status.
WithStatus(object, priority, status) ==
    [ priority |-> priority, status |-> status, deadline |-> object.deadline ]

\* get_task_priority_score on arg in each tier and each status.
CallScoreByStatus ==
    /\ out = None
    /\ out' = [ fn |-> "score_by_status",
                value |-> [ p \in Priorities |-> [ st \in Statuses |->
                             GetTaskPriorityScore(WithStatus(arg, p, st), Aware(now)) ] ] ]
    /\ UNCHANGED << users, tasks, now, events, sweepVars, quiet, sentPrev, arg, catalogVars, fsm, session >>

\* The deadlines arg can be given: none, or one at each offset from now, aware
\* or naive as arg's own deadline is (aware when arg has none).
DeadlinesLike(object, t) ==
    {None} \cup { Some([ t |-> t + o,
                         aware |-> IF object.deadline = None THEN TRUE
                                   ELSE object.deadline[1].aware ]) : o \in DeadlineOffsets }

\* get_task_priority_score on every task of every tier, status and deadline
\* that arg can be given.
CallScoreAcrossTiers ==
    /\ out = None
    /\ out' = [ fn |-> "score_across_tiers",
                value |-> [ task \in [ priority : Priorities, status : Statuses,
                                       deadline : DeadlinesLike(arg, now) ] |->
                              GetTaskPriorityScore(task, Aware(now)) ] ]
    /\ UNCHANGED << users, tasks, now, events, sweepVars, quiet, sentPrev, arg, catalogVars, fsm, session >>

NextCall ==
    \/ CallGetTasksDueSoon
    \/ CallGetTaskPriorityScore
    \/ CallScoreByDeadline
    \/ CallScoreByStatus
    \/ CallScoreAcrossTiers

SpecCall == InitCall /\ [][NextCall]_vars

\* ------------------------------------------------------ the task list
\* The same rows with the order_by of line 121 left out: as the table holds
\* them, oldest first.
GetUserTasksUnordered(T, user_id, status, category_id) ==
    Ascending({ id \in DOMAIN T :
                    /\ T[id].user_id = user_id
                    /\ status # None => T[id].status = status[1]
                    /\ (category_id # None /\ category_id[1] # 0) =>
                           T[id].category_id = category_id })

\* get_user_tasks(user_id, status, category_id): the ids of the user's rows
\* that pass the filters (a filter that is None or falsy is not applied), by
\* created_at descending.  A new row gets the largest id in the table at a
\* later time than every row in it, so that is by id descending.
GetUserTasks(T, user_id, status, category_id) ==
    LET ids == { id \in DOMAIN T :
                    /\ T[id].user_id = user_id
                    /\ status # None => T[id].status = status[1]
                    /\ (category_id # None /\ category_id[1] # 0) =>
                           T[id].category_id = category_id
               }
        up  == Ascending(ids)
    IN  [ k \in 1..Len(up) |-> up[Len(up) + 1 - k] ]

\* The Task object a query loads from a row.
LoadTask(row) ==
    [ priority |-> row.priority, status |-> row.status,
      deadline |-> IF row.deadline = None THEN None
                   ELSE Some(LoadDatetime(row.deadline[1])) ]

\* sorted(s, key): stable, ascending by key; each element goes after those
\* before it whose key is not greater.
RECURSIVE SortedBy(_, _)
SortedBy(s, key) ==
    IF s = << >> THEN << >>
    ELSE LET rest == SortedBy(SubSeq(s, 1, Len(s) - 1), key)
             x    == s[Len(s)]
             n    == Cardinality({ k \in 1..Len(rest) : key[rest[k]] <= key[x] })
         IN  SubSeq(rest, 1, n) \o << x >> \o SubSeq(rest, n + 1, Len(rest))

\* show_tasks: the ids in the order the keyboard lists them, or the exception
\* of a key function that raised.
ShowTasks(T, user_id, t) ==
    LET all    == GetUserTasks(T, user_id, None, None)
        active == SelectSeq(all, LAMBDA id : T[id].status # "completed")
        key    == [ id \in DOMAIN T |-> GetTaskPriorityScore(LoadTask(T[id]), Aware(t)) ]
    IN  IF \E k \in 1..Len(active) : key[active[k]].raised
        THEN [ raised |-> TRUE, list |-> << >> ]
        ELSE [ raised |-> FALSE,
               list |-> SortedBy(active, [ id \in DOMAIN T |-> key[id].score ]) ]

\* What the wizard was given for a task: its tier and the hours from now to
\* its deadline (None: /skip).
DueIn == {None, Some(1), Some(10), Some(DayHours + 1)}
Wishes == [ priority : Priorities, due : DueIn ]

\* create_task for a wish at time t.
CreateWished(T, user_id, wish, t) ==
    CreateTask(T, user_id, "abc", None, wish.priority, None,
               IF wish.due = None THEN None ELSE Some(Aware(t + wish.due[1])))

\* One user, who created two tasks one after the other.
InitList ==
    /\ users = << 1 >>
    /\ now \in 0..MaxNow
    /\ arg \in [ first : Wishes, second : Wishes ]
    /\ tasks = CreateWished(CreateWished(<< >>, 1, arg.first, now), 1, arg.second, now)
    /\ events = 0
    /\ pc = "idle"
    /\ selected = << >>
    /\ idx = 1
    /\ results = << >>
    /\ quiet = TRUE
    /\ sentPrev = {}
    /\ out = None
    /\ categories = << >>
    /\ subtasks = << >>
    /\ fsm = [ g \in TelegramIds |-> NoConversation ]
    /\ session = NoSessions

\* The list show_tasks makes for the user.
CallShowTasks ==
    /\ out = None
    /\ out' = [ fn |-> "show_tasks", value |-> ShowTasks(tasks, 1, now) ]
    /\ UNCHANGED << users, tasks, now, events, sweepVars, quiet, sentPrev, arg, catalogVars, fsm, session >>

NextList == CallShowTasks

SpecList == InitList /\ [][NextList]_vars

\* ------------------------------------------------- utils.py: validate_title
\* A text is the sequence of its characters; " " stands for whitespace and
\* "a" for any other character.
Blank == " "

\* str.strip(): the text without its leading and trailing whitespace.
RECURSIVE StripLeft(_)
StripLeft(text) ==
    IF text # << >> /\ Head(text) = Blank THEN StripLeft(Tail(text)) ELSE text

RECURSIVE StripRight(_)
StripRight(text) ==
    IF text # << >> /\ text[Len(text)] = Blank
    THEN StripRight(SubSeq(text, 1, Len(text) - 1))
    ELSE text

Strip(text) == StripRight(StripLeft(text))

\* ValidateTitle measuring the text as typed.
ValidateTitleUntrimmed(title) ==
    IF title = << >>
    THEN [ ok |-> FALSE, value |-> "must not be empty" ]
    ELSE IF Len(title) < MinTitle
    THEN [ ok |-> FALSE, value |-> "too short (3 characters at least)" ]
    ELSE IF Len(title) > MaxTitle
    THEN [ ok |-> FALSE, value |-> "too long (255 characters at most)" ]
    ELSE [ ok |-> TRUE, value |-> title ]

\* ValidateTitle returning the text as typed once its stripped form passed.
ValidateTitleReturningTyped(title) ==
    LET stripped == Strip(title)
    IN  IF stripped = << >>
        THEN [ ok |-> FALSE, value |-> "must not be empty" ]
        ELSE IF Len(stripped) < MinTitle
        THEN [ ok |-> FALSE, value |-> "too short (3 characters at least)" ]
        ELSE IF Len(stripped) > MaxTitle
        THEN [ ok |-> FALSE, value |-> "too long (255 characters at most)" ]
        ELSE [ ok |-> TRUE, value |-> title ]

\* validate_title(title): (False, message) or (True, the stripped title).
ValidateTitle(title) ==
    LET stripped == Strip(title)
    IN  IF stripped = << >>
        THEN [ ok |-> FALSE, value |-> "must not be empty" ]
        ELSE IF Len(stripped) < MinTitle
        THEN [ ok |-> FALSE, value |-> "too short (3 characters at least)" ]
        ELSE IF Len(stripped) > MaxTitle
        THEN [ ok |-> FALSE, value |-> "too long (255 characters at most)" ]
        ELSE [ ok |-> TRUE, value |-> stripped ]

\* Typed titles: a core of a given length, with or without whitespace inside
\* it, between some whitespace on the left and some on the right.
CoreLengths ==
    {0, 1, MinTitle - 1, MinTitle, MinTitle + 1, MaxTitle - 1, MaxTitle, MaxTitle + 1,
     MaxTitle + 2}
Core(n, spaced) == [ k \in 1..n |-> IF spaced /\ 1 < k /\ k < n /\ k % 4 = 2 THEN Blank ELSE "a" ]
Pad(n) == [ k \in 1..n |-> Blank ]
TypedTitles ==
    [ lead : 0..MaxPad, core : { Core(n, sp) : n \in CoreLengths, sp \in BOOLEAN },
      trail : 0..MaxPad ]
TitleText(typed) == Pad(typed.lead) \o typed.core \o Pad(typed.trail)

InitTitle ==
    /\ arg \in TypedTitles
    /\ out = None
    /\ users = << >>
    /\ tasks = << >>
    /\ categories = << >>
    /\ subtasks = << >>
    /\ now = 0
    /\ events = 0
    /\ pc = "idle"
    /\ selected = << >>
    /\ idx = 1
    /\ results = << >>
    /\ quiet = TRUE
    /\ sentPrev = {}
    /\ fsm = [ g \in TelegramIds |-> NoConversation ]
    /\ session = NoSessions

CallValidateTitle ==
    /\ out = None
    /\ out' = [ fn |-> "validate_title", value |-> ValidateTitle(TitleText(arg)) ]
    /\ UNCHANGED << users, tasks, now, events, sweepVars, quiet, sentPrev, arg, catalogVars, fsm, session >>

NextTitle == CallValidateTitle

SpecTitle == InitTitle /\ [][NextTitle]_vars

\* -------------------------------------- database.py: get_user_statistics
\* The four COUNT queries, each over the rows of user_id; t is utcnow().  A
\* NULL deadline compares as NULL and is not counted.
CountRows(T, user_id, P(_)) ==
    Cardinality({ task_id \in DOMAIN T : T[task_id].user_id = user_id /\ P(T[task_id]) })
AnyRow(row) == TRUE
RowCompleted(row) == row.status = "completed"
RowPending(row) == row.status = "pending"

\* RowOverdue without the status test.
RowOverdueAnyStatus(row, t) == row.deadline # None /\ row.deadline[1] < t

RowOverdue(row, t) == row.status = "pending" /\ row.deadline # None /\ row.deadline[1] < t

\* CompletionRate cut to one decimal, not rounded.
CompletionRateCut(completed, total) ==
    IF total > 0 THEN (completed * 1000) \div total ELSE 0

\* round(completed / total * 100, 1) if total > 0 else 0, in tenths of a per
\* cent; round() takes the nearest tenth and, of two equally near, the even.
CompletionRate(completed, total) ==
    IF total > 0
    THEN LET floor == (completed * 1000) \div total
             twice == 2 * ((completed * 1000) % total)
         IN  IF twice > total \/ (twice = total /\ floor % 2 = 1) THEN floor + 1 ELSE floor
    ELSE 0

\* get_user_statistics(user_id) at time t
GetUserStatistics(T, user_id, t) ==
    LET OverdueAt(row) == RowOverdue(row, t)
    IN  [ total           |-> CountRows(T, user_id, AnyRow),
          completed       |-> CountRows(T, user_id, RowCompleted),
          pending         |-> CountRows(T, user_id, RowPending),
          overdue         |-> CountRows(T, user_id, OverdueAt),
          completion_rate |-> CompletionRate(CountRows(T, user_id, RowCompleted),
                                             CountRows(T, user_id, AnyRow)) ]

\* The clock of the statistics calls, with a deadline before it, on it and
\* after it.
StatNow == 1
StatDeadlines == [ past |-> Some(Aware(StatNow - 1)), on |-> Some(Aware(StatNow)),
                   later |-> Some(Aware(StatNow + 1)), none |-> None ]

\* A table T with n more tasks of user_id, of a status and a deadline.
RECURSIVE MoreTasks(_, _, _, _, _)
MoreTasks(T, n, user_id, status, deadline) ==
    IF n = 0 THEN T
    ELSE LET created == CreateTask(T, user_id, "abc", None, "medium", None, deadline)
         IN  MoreTasks(UpdateTask(created, NewTaskId(T), user_id, "status" :> Some(status), StatNow),
                       n - 1, user_id, status, deadline)

\* How many tasks of each kind user 1 has, and how many overdue ones user 2.
StatCounts ==
    [ completed    : 0..MaxCompleted,
      pendingPast  : 0..MaxPending,
      pendingLater : 0..MaxPending,
      pendingOn    : 0..MaxOther,
      pendingNone  : 0..MaxOther,
      startedPast  : 0..MaxOther,
      cancelledPast : 0..MaxOther,
      foreignPast  : 0..MaxPending ]

\* The table that holds the tasks counted in c.
StatTable(c) ==
    MoreTasks(MoreTasks(MoreTasks(MoreTasks(MoreTasks(MoreTasks(MoreTasks(MoreTasks(<< >>,
        c.foreignPast, 2, "pending", StatDeadlines.past),
        c.completed, 1, "completed", StatDeadlines.past),
        c.pendingPast, 1, "pending", StatDeadlines.past),
        c.pendingLater, 1, "pending", StatDeadlines.later),
        c.pendingOn, 1, "pending", StatDeadlines.on),
        c.pendingNone, 1, "pending", StatDeadlines.none),
        c.startedPast, 1, "in_progress", StatDeadlines.past),
        c.cancelledPast, 1, "cancelled", StatDeadlines.past)

InitStats ==
    /\ arg \in StatCounts
    /\ out = None
    /\ users = << 1, 7 >>
    /\ tasks = StatTable(arg)
    /\ categories = << >>
    /\ subtasks = << >>
    /\ now = StatNow
    /\ events = 0
    /\ pc = "idle"
    /\ selected = << >>
    /\ idx = 1
    /\ results = << >>
    /\ quiet = TRUE
    /\ sentPrev = {}
    /\ fsm = [ g \in TelegramIds |-> NoConversation ]
    /\ session = NoSessions

CallGetUserStatistics ==
    /\ out = None
    /\ out' = [ fn |-> "get_user_statistics", value |-> GetUserStatistics(tasks, 1, now) ]
    /\ UNCHANGED << users, tasks, now, events, sweepVars, quiet, sentPrev, arg, catalogVars, fsm, session >>

NextStats == CallGetUserStatistics

SpecStats == InitStats /\ [][NextStats]_vars

\* ------------------------------------------------- ai_helper.py: AIHelper
\* The reply of every method of AIHelper when there is no client (lines 17,
\* 47, 99, 143: the same literal).
NotConfigured == "AI helper is not configured: add OPENAI_API_KEY to .env"

\* client (line 7): an AsyncOpenAI for a key that is not empty, else None.
Client(openai_api_key) ==
    IF openai_api_key # "" THEN Some(openai_api_key) ELSE None

\* client.chat.completions.create(prompt) inside try/except Exception: the
\* service is sent the prompt and either answers or fails, and the method
\* returns the answer or its error text.
Completion(prompt) ==
    { [ value |-> v, requests |-> << prompt >> ] : v \in {"response", "error"} }

\* The list of dicts the four handlers build from get_user_tasks(user.id)
\* (bot.py 1372-1382 and alike).  id stands for what tells one task from
\* another in the prompt; the deadline is the one the row is read back with.
TasksData(T, user_id) ==
    LET ids == GetUserTasks(T, user_id, None, None)
    IN  [ k \in 1..Len(ids) |->
            [ id |-> ids[k], priority |-> T[ids[k]].priority, status |-> T[ids[k]].status,
              deadline |-> LoadTask(T[ids[k]]).deadline ] ]

\* s[:n]
FirstOf(s, n) == SubSeq(s, 1, Min2(Len(s), n))

\* The ids of the tasks of a list, in its order.
IdsOf(s) == [ k \in 1..Len(s) |-> s[k].id ]

\* get_advice(tasks)
GetAdvice(c, tasks_data) ==
    IF c = None THEN { [ value |-> NotConfigured, requests |-> << >> ] }
    ELSE Completion([ mode |-> "advice", listed |-> IdsOf(FirstOf(tasks_data, AdviceLimit)) ])

\* x['deadline'] or datetime.min: a task without a deadline sorted first.
PlanDayKeyNoneFirst(x) ==
    << (CASE x.priority = "urgent" -> 0 [] x.priority = "high" -> 1
          [] x.priority = "medium" -> 2 [] x.priority = "low" -> 3 [] OTHER -> 4),
       IF x.deadline = None THEN Naive(0 - DatetimeMax) ELSE x.deadline[1] >>

\* The sort key of plan_day (lines 51-54): the rank of the priority, then the
\* deadline, datetime.max standing for a missing one.
PlanDayKey(x) ==
    << (CASE x.priority = "urgent" -> 0 [] x.priority = "high" -> 1
          [] x.priority = "medium" -> 2 [] x.priority = "low" -> 3 [] OTHER -> 4),
       IF x.deadline = None THEN Naive(DatetimeMax) ELSE x.deadline[1] >>

\* a < b for two keys: tuples compare by their first differing element.  The
\* deadlines are read back from rows, so they are naive, as datetime.max is.
KeyLess(a, b) == a[1] < b[1] \/ (a[1] = b[1] /\ a[2].t < b[2].t)

\* pending.sort(key=...): stable; each element goes after those before it
\* whose key it is not less than.
RECURSIVE SortByPlanDayKey(_)
SortByPlanDayKey(s) ==
    IF s = << >> THEN << >>
    ELSE LET rest == SortByPlanDayKey(SubSeq(s, 1, Len(s) - 1))
             x    == s[Len(s)]
             n    == Cardinality({ k \in 1..Len(rest) :
                                     ~KeyLess(PlanDayKey(x), PlanDayKey(rest[k])) })
         IN  SubSeq(rest, 1, n) \o << x >> \o SubSeq(rest, n + 1, Len(rest))

\* plan_day(tasks)
PlanDay(c, tasks_data) ==
    IF c = None THEN { [ value |-> NotConfigured, requests |-> << >> ] }
    ELSE LET pending == SelectSeq(tasks_data, LAMBDA t : t.status = "pending")
         IN  Completion([ mode |-> "plan_day",
                          listed |-> IdsOf(FirstOf(SortByPlanDayKey(pending), PlanDayLimit)) ])

\* analyze_tasks(tasks) at time t: the prompt carries counts only.
AnalyzeTasks(c, tasks_data, t) ==
    IF c = None THEN { [ value |-> NotConfigured, requests |-> << >> ] }
    ELSE LET Count(P(_)) == Len(SelectSeq(tasks_data, P))
         IN  Completion([ mode |-> "analyze",
                          total |-> Len(tasks_data),
                          completed |-> Count(LAMBDA x : x.status = "completed"),
                          pending |-> Count(LAMBDA x : x.status = "pending"),
                          overdue |-> Count(LAMBDA x : /\ x.deadline # None
                                                       /\ x.deadline[1].t < t
                                                       /\ x.status # "completed") ])

\* optimize_schedule(tasks) with the guard of lines 142-143 left out: the
\* call on a client that is None fails inside the try, and the error text of
\* line 182 is returned.
OptimizeScheduleUnguarded(c, tasks_data) ==
    IF c = None THEN { [ value |-> "error", requests |-> << >> ] }
    ELSE Completion([ mode |-> "optimize", listed |-> << >> ])

\* optimize_schedule(tasks): lists the tasks that have an estimated_time,
\* which no handler ever sets, so the list is empty.
OptimizeSchedule(c, tasks_data) ==
    IF c = None THEN { [ value |-> NotConfigured, requests |-> << >> ] }
    ELSE Completion([ mode |-> "optimize", listed |-> << >> ])

\* A table T with n more tasks of user_id, of a priority, status and deadline.
RECURSIVE Planned(_, _, _, _, _, _)
Planned(T, n, user_id, priority, status, deadline) ==
    IF n = 0 THEN T
    ELSE LET created == CreateTask(T, user_id, "abc", None, priority, None, deadline)
         IN  Planned(UpdateTask(created, NewTaskId(T), user_id, "status" :> Some(status), 0),
                     n - 1, user_id, priority, status, deadline)

\* How many tasks of each kind user 1 has, and how many user 2.
AdviceCounts ==
    [ lowSoon     : 0..MaxKind,
      urgentNone  : 0..MaxKind,
      highLate    : 0..MaxKind,
      urgentLate  : 0..MaxFill,
      urgentSoon  : 0..MaxKind,
      highStarted : 0..MaxKind,
      urgentDone  : 0..MaxKind,
      foreign     : 0..MaxKind ]

\* The table that holds the tasks counted in c, created in this order.
AdviceTable(c) ==
    Planned(Planned(Planned(Planned(Planned(Planned(Planned(Planned(<< >>,
        c.lowSoon, 1, "low", "pending", Some(Aware(0))),
        c.urgentNone, 1, "urgent", "pending", None),
        c.highLate, 1, "high", "pending", Some(Aware(2))),
        c.urgentLate, 1, "urgent", "pending", Some(Aware(2))),
        c.urgentSoon, 1, "urgent", "pending", Some(Aware(1))),
        c.highStarted, 1, "high", "in_progress", Some(Aware(0))),
        c.urgentDone, 1, "urgent", "completed", Some(Aware(0))),
        c.foreign, 2, "urgent", "pending", Some(Aware(0)))

\* A deployment with or without OPENAI_API_KEY, with one chat whose user has
\* the tasks counted.
InitAdvice ==
    /\ arg \in [ openai_api_key : {"", "sk"}, counts : AdviceCounts ]
    /\ out = None
    /\ users = << 1, 7 >>
    /\ tasks = AdviceTable(arg.counts)
    /\ categories = << >>
    /\ subtasks = << >>
    /\ now = 1
    /\ events = 0
    /\ pc = "idle"
    /\ selected = << >>
    /\ idx = 1
    /\ results = << >>
    /\ quiet = TRUE
    /\ sentPrev = {}
    /\ fsm = [ g \in TelegramIds |-> NoConversation ]
    /\ session = NoSessions

\* A handler of the helper menu, for the chat of user 1: what the method
\* returned is shown, and requests are the prompts the service was sent.
Advised(handler, outcomes) ==
    /\ out = None
    /\ \E o \in outcomes :
          out' = [ fn |-> handler, value |-> o.value, requests |-> o.requests ]
    /\ UNCHANGED << users, tasks, now, events, sweepVars, quiet, sentPrev, arg, catalogVars, fsm, session >>

OnAiAdvice ==
    Advised("ai_advice", GetAdvice(Client(arg.openai_api_key), TasksData(tasks, UserIdOf(users, 1))))

OnAiPlanDay ==
    Advised("ai_plan_day", PlanDay(Client(arg.openai_api_key), TasksData(tasks, UserIdOf(users, 1))))

OnAiAnalyze ==
    Advised("ai_analyze", AnalyzeTasks(Client(arg.openai_api_key), TasksData(tasks, UserIdOf(users, 1)), now))

OnAiOptimize ==
    Advised("ai_optimize", OptimizeSchedule(Client(arg.openai_api_key), TasksData(tasks, UserIdOf(users, 1))))

NextAdvice ==
    \/ OnAiAdvice
    \/ OnAiPlanDay
    \/ OnAiAnalyze
    \/ OnAiOptimize

SpecAdvice == InitAdvice /\ [][NextAdvice]_vars

\* ------------------------------------------------ bot.py: the conversation
\* Texts a chat sends, as character sequences.  CancelButton is the text of
\* the reply-keyboard button of get_cancel_keyboard().
CancelButton == << "X", " ", "O", "t", "m", "e", "n", "a" >>
CancelCommand == << "/", "c", "a", "n", "c", "e", "l" >>
SkipCommand == << "/", "s", "k", "i", "p" >>
AddCommand == << "/", "a", "d", "d" >>
TasksCommand == << "/", "t", "a", "s", "k", "s" >>
GoodTitle == << " ", "B", "u", "y", " ", "m", "i", "l", "k" >>
ShortText == << "a" >>
BlankText == << " " >>
LongText == [ k \in 1..(MaxTitle + 1) |-> "a" ]
DateChars == << "2", "5", ".", "1", "2", ".", "2", "0", "3", "0" >>
ChatTexts ==
    { CancelButton, CancelCommand, SkipCommand, AddCommand, TasksCommand, GoodTitle,
      ShortText, BlankText, LongText, DateChars }

\* The text as parse_deadline sees it: only DateChars holds a date.
AsDeadlineText(text) == IF text = DateChars THEN DateText(Hours) ELSE JunkText

\* A message update with its text.
Message(text) == [ text |-> text ]

\* Callback data a chat sends: the prefix the filters test and what follows it.
Callback(prefix, param) == [ prefix |-> prefix, param |-> param ]

\* int(callback.data.split("_")[2])
IdOf(cb) == CHOOSE n \in 0..9 : ToString(n) = cb.param

ChatCallbacks ==
    { Callback(prefix, "1") : prefix \in { "edit_title_", "edit_desc_", "edit_priority_",
                                         "edit_deadline_", "edit_category_", "cat_rename_" } }
        \cup { Callback("priority_", "urgent"), Callback("set_category_", "1"),
               Callback("set_category_", "none"), Callback("category_new", ""),
               Callback("cancel", "") }

\* The handler a message is routed to: the first registered one, in the
\* order of bot.py, whose filters pass.  A handler filtered by a state alone
\* takes every text sent in that state.
RouteMessage(state, text) ==
    IF text = TasksCommand THEN "show_tasks"
    ELSE IF state = "EditTaskStates.title" THEN "edit_title_message"
    ELSE IF state = "EditTaskStates.description" THEN "edit_description_message"
    ELSE IF state = "EditTaskStates.deadline" THEN "edit_deadline_message"
    ELSE IF text = AddCommand THEN "add_task_start"
    ELSE IF state = "TaskStates.title" THEN "add_task_title"
    ELSE IF state = "TaskStates.description" THEN "add_task_description"
    ELSE IF state = "TaskStates.deadline" THEN "add_task_deadline"
    ELSE IF state = "CategoryStates.name" THEN "category_name"
    ELSE IF state = "CategoryStates.rename" THEN "category_rename"
    ELSE IF text \in {CancelButton, CancelCommand} THEN "cancel_action"
    ELSE "unhandled"

\* The handler a callback query is routed to, likewise.
RouteCallback(state, cb) ==
    IF cb.prefix = "edit_title_" THEN "edit_title_callback"
    ELSE IF cb.prefix = "edit_desc_" THEN "edit_description_callback"
    ELSE IF cb.prefix = "edit_priority_" THEN "edit_priority_callback"
    ELSE IF state = "EditTaskStates.priority" /\ cb.prefix = "priority_" THEN "edit_priority_select"
    ELSE IF cb.prefix = "edit_deadline_" THEN "edit_deadline_callback"
    ELSE IF cb.prefix = "edit_category_" THEN "edit_category_callback"
    ELSE IF state = "EditTaskStates.category" /\ cb.prefix = "set_category_" THEN "edit_category_select"
    ELSE IF state = "TaskStates.priority" /\ cb.prefix = "priority_" THEN "add_task_priority"
    ELSE IF state = "TaskStates.category" /\ cb.prefix = "set_category_" THEN "add_task_category"
    ELSE IF cb.prefix = "category_new" THEN "new_category"
    ELSE IF cb.prefix = "cat_rename_" THEN "rename_category_callback"
    ELSE IF cb.prefix = "cancel" THEN "cancel_callback"
    ELSE "unhandled"

\* state.update_data(key=value), state.set_state(state), data.get(key).
\* A value in the data is None or Some(v).
UpdateData(conv, key, value) ==
    [ conv EXCEPT !.data = [ k \in DOMAIN conv.data \cup {key} |->
                               IF k = key THEN value ELSE conv.data[k] ] ]
SetState(conv, state) == [ conv EXCEPT !.state = state ]
DataGet(conv, key) == IF key \in DOMAIN conv.data THEN conv.data[key] ELSE None

\* set_category_<id> or set_category_none as the category it names.
CategoryOf(cb) == IF cb.param = "none" THEN None ELSE Some(IdOf(cb))

\* What a handler did with an update: the chat, its name, the update and the
\* answer.
Handled(g, handler, update, reply) ==
    [ chat |-> g, handler |-> handler, update |-> update, reply |-> reply ]

\* One more update reaches the dispatcher.
Sent == events < MaxChat /\ events' = events + 1

\* What no conversation handler touches.
chatFrame == << now, sweepVars, quiet, sentPrev, arg, subtasks, session >>

\* Rejected as a handler that gives up the conversation would have it.
RejectedClearing(g, handler, text, reply) ==
    /\ out' = Handled(g, handler, Message(text), reply)
    /\ fsm' = [ fsm EXCEPT ![g] = NoConversation ]
    /\ UNCHANGED << users, tasks, categories >>

\* A handler that answers and returns at once.
Rejected(g, handler, text, reply) ==
    /\ out' = Handled(g, handler, Message(text), reply)
    /\ UNCHANGED << users, tasks, categories, fsm, session >>

\* DeadlineRejected without the test of what parse_deadline returned.
DeadlineRejectedNever(text) == text # SkipCommand /\ FALSE

\* The deadline handlers' test of the text: not /skip and no date in it.
DeadlineRejected(text) == text # SkipCommand /\ ParseDeadline(AsDeadlineText(text)) = None

\* data.get('task_id') and update_task(task_id, user.id, **kwargs) of the
\* edit handlers, then state.clear().
EditFromData(g, handler, update, kwargs) ==
    LET task_id == DataGet(fsm[g], "task_id")
        found == task_id # None /\ TaskFound(tasks, task_id[1], UserIdOf(users, g))
    IN  /\ users' = GetOrCreateUser(users, g)
        /\ tasks' = IF task_id = None THEN tasks
                    ELSE UpdateTask(tasks, task_id[1], UserIdOf(users, g), kwargs, now)
        /\ fsm' = [ fsm EXCEPT ![g] = NoConversation ]
        /\ out' = Handled(g, handler, update, IF found THEN "changed" ELSE "task not found")
        /\ UNCHANGED categories

\* edit_title_<id>, edit_desc_<id>, edit_priority_<id>, edit_deadline_<id>,
\* edit_category_<id>: remember the task and wait for the new value.
EditCallback(g, cb, handler, state) ==
    /\ RouteCallback(fsm[g].state, cb) = handler
    /\ Sent
    /\ fsm' = [ fsm EXCEPT ![g] = SetState(UpdateData(fsm[g], "task_id", Some(IdOf(cb))), state) ]
    /\ out' = Handled(g, handler, cb, "enter the new value")

\* "/tasks": show_tasks clears the conversation before it lists.
OnShowTasks(g, text) ==
    /\ RouteMessage(fsm[g].state, text) = "show_tasks"
    /\ Sent
    /\ fsm' = [ fsm EXCEPT ![g] = NoConversation ]
    /\ users' = GetOrCreateUser(users, g)
    /\ out' = Handled(g, "show_tasks", Message(text), ShowTasks(tasks, UserIdOf(users, g), now))
    /\ UNCHANGED << tasks, categories, chatFrame >>

OnEditTitleCallback(g, cb) ==
    /\ EditCallback(g, cb, "edit_title_callback", "EditTaskStates.title")
    /\ UNCHANGED << users, tasks, categories, chatFrame >>

\* EditTaskStates.title
OnEditTitleMessage(g, text) ==
    /\ RouteMessage(fsm[g].state, text) = "edit_title_message"
    /\ Sent
    /\ IF ~ValidateTitle(text).ok
       THEN Rejected(g, "edit_title_message", text, ValidateTitle(text).value)
       ELSE EditFromData(g, "edit_title_message", Message(text),
                         "title" :> Some(ValidateTitle(text).value))
    /\ UNCHANGED chatFrame

OnEditDescriptionCallback(g, cb) ==
    /\ EditCallback(g, cb, "edit_description_callback", "EditTaskStates.description")
    /\ UNCHANGED << users, tasks, categories, chatFrame >>

\* EditTaskStates.description
OnEditDescriptionMessage(g, text) ==
    /\ RouteMessage(fsm[g].state, text) = "edit_description_message"
    /\ Sent
    /\ EditFromData(g, "edit_description_message", Message(text),
                    "description" :> (IF text = SkipCommand THEN None ELSE Some(text)))
    /\ UNCHANGED chatFrame

OnEditPriorityCallback(g, cb) ==
    /\ EditCallback(g, cb, "edit_priority_callback", "EditTaskStates.priority")
    /\ UNCHANGED << users, tasks, categories, chatFrame >>

\* EditTaskStates.priority, priority_<tier>
OnEditPrioritySelect(g, cb) ==
    /\ RouteCallback(fsm[g].state, cb) = "edit_priority_select"
    /\ Sent
    /\ EditFromData(g, "edit_priority_select", cb, "priority" :> Some(cb.param))
    /\ UNCHANGED chatFrame

OnEditDeadlineCallback(g, cb) ==
    /\ EditCallback(g, cb, "edit_deadline_callback", "EditTaskStates.deadline")
    /\ UNCHANGED << users, tasks, categories, chatFrame >>

\* EditTaskStates.deadline
OnEditDeadlineMessage(g, text) ==
    /\ RouteMessage(fsm[g].state, text) = "edit_deadline_message"
    /\ Sent
    /\ IF DeadlineRejected(text)
       THEN Rejected(g, "edit_deadline_message", text, "wrong date format")
       ELSE EditFromData(g, "edit_deadline_message", Message(text),
                         "deadline" :> (IF text = SkipCommand THEN None
                                        ELSE ParseDeadline(AsDeadlineText(text))))
    /\ UNCHANGED chatFrame

\* edit_category_<id>: also loads the user's categories for the keyboard.
OnEditCategoryCallback(g, cb) ==
    /\ EditCallback(g, cb, "edit_category_callback", "EditTaskStates.category")
    /\ users' = GetOrCreateUser(users, g)
    /\ UNCHANGED << tasks, categories, chatFrame >>

\* EditTaskStates.category, set_category_<id> or set_category_none
OnEditCategorySelect(g, cb) ==
    /\ RouteCallback(fsm[g].state, cb) = "edit_category_select"
    /\ Sent
    /\ EditFromData(g, "edit_category_select", cb, "category_id" :> CategoryOf(cb))
    /\ UNCHANGED chatFrame

\* "/add": a fresh wizard.
OnAddTaskStart(g, text) ==
    /\ RouteMessage(fsm[g].state, text) = "add_task_start"
    /\ Sent
    /\ fsm' = [ fsm EXCEPT ![g] = SetState(NoConversation, "TaskStates.title") ]
    /\ out' = Handled(g, "add_task_start", Message(text), "enter the title")
    /\ UNCHANGED << users, tasks, categories, chatFrame >>

\* TaskStates.title
OnAddTaskTitle(g, text) ==
    /\ RouteMessage(fsm[g].state, text) = "add_task_title"
    /\ Sent
    /\ IF ~ValidateTitle(text).ok
       THEN Rejected(g, "add_task_title", text, ValidateTitle(text).value)
       ELSE /\ fsm' = [ fsm EXCEPT ![g] =
                          SetState(UpdateData(fsm[g], "title", Some(ValidateTitle(text).value)),
                                   "TaskStates.description") ]
            /\ out' = Handled(g, "add_task_title", Message(text), "enter the description")
            /\ UNCHANGED << users, tasks, categories >>
    /\ UNCHANGED chatFrame

\* TaskStates.description
OnAddTaskDescription(g, text) ==
    /\ RouteMessage(fsm[g].state, text) = "add_task_description"
    /\ Sent
    /\ fsm' = [ fsm EXCEPT ![g] =
                  SetState(UpdateData(fsm[g], "description",
                                      IF text = SkipCommand THEN None ELSE Some(text)),
                           "TaskStates.priority") ]
    /\ out' = Handled(g, "add_task_description", Message(text), "choose the priority")
    /\ UNCHANGED << users, tasks, categories, chatFrame >>

\* TaskStates.priority, priority_<tier>
OnAddTaskPriority(g, cb) ==
    /\ RouteCallback(fsm[g].state, cb) = "add_task_priority"
    /\ Sent
    /\ fsm' = [ fsm EXCEPT ![g] =
                  SetState(UpdateData(fsm[g], "priority", Some(cb.param)), "TaskStates.category") ]
    /\ users' = GetOrCreateUser(users, g)
    /\ out' = Handled(g, "add_task_priority", cb, "choose the category")
    /\ UNCHANGED << tasks, categories, chatFrame >>

\* TaskStates.category, set_category_<id> or set_category_none
OnAddTaskCategory(g, cb) ==
    /\ RouteCallback(fsm[g].state, cb) = "add_task_category"
    /\ Sent
    /\ fsm' = [ fsm EXCEPT ![g] =
                  SetState(UpdateData(fsm[g], "category_id", CategoryOf(cb)), "TaskStates.deadline") ]
    /\ out' = Handled(g, "add_task_category", cb, "enter the deadline")
    /\ UNCHANGED << users, tasks, categories, chatFrame >>

\* TaskStates.deadline: the step that calls create_task.  data['title'] and
\* data['priority'] raise KeyError when the key is missing, after the
\* deadline was put in the data and before anything is created.
OnAddTaskDeadline(g, text) ==
    LET deadline == IF text = SkipCommand THEN None ELSE ParseDeadline(AsDeadlineText(text))
        data == UpdateData(fsm[g], "deadline", deadline)
    IN  /\ RouteMessage(fsm[g].state, text) = "add_task_deadline"
        /\ Sent
        /\ IF DeadlineRejected(text)
           THEN Rejected(g, "add_task_deadline", text, "wrong date format")
           ELSE IF DataGet(data, "title") = None \/ DataGet(data, "priority") = None
           THEN /\ users' = GetOrCreateUser(users, g)
                /\ fsm' = [ fsm EXCEPT ![g] = data ]
                /\ out' = Handled(g, "add_task_deadline", Message(text), "KeyError")
                /\ UNCHANGED << tasks, categories >>
           ELSE /\ NewTaskId(tasks) <= MaxTasks
                /\ users' = GetOrCreateUser(users, g)
                /\ tasks' = CreateTask(tasks, UserIdOf(users, g), DataGet(data, "title")[1],
                                       DataGet(data, "description"), DataGet(data, "priority")[1],
                                       DataGet(data, "category_id"), deadline)
                /\ fsm' = [ fsm EXCEPT ![g] = NoConversation ]
                /\ out' = Handled(g, "add_task_deadline", Message(text), "created")
                /\ UNCHANGED categories
        /\ UNCHANGED chatFrame

\* new_category if it began with state.clear(), as add_task_start does.
OnNewCategoryClearing(g, cb) ==
    /\ RouteCallback(fsm[g].state, cb) = "new_category"
    /\ Sent
    /\ fsm' = [ fsm EXCEPT ![g] =
                  SetState(UpdateData(NoConversation, "return_to_task_creation",
                                      Some(fsm[g].state = "TaskStates.category")),
                           "CategoryStates.name") ]
    /\ out' = Handled(g, "new_category", cb, "enter the name")
    /\ UNCHANGED << users, tasks, categories, chatFrame >>

\* category_new: remembers whether the wizard was choosing a category.
OnNewCategory(g, cb) ==
    /\ RouteCallback(fsm[g].state, cb) = "new_category"
    /\ Sent
    /\ fsm' = [ fsm EXCEPT ![g] =
                  SetState(UpdateData(fsm[g], "return_to_task_creation",
                                      Some(fsm[g].state = "TaskStates.category")),
                           "CategoryStates.name") ]
    /\ out' = Handled(g, "new_category", cb, "enter the name")
    /\ UNCHANGED << users, tasks, categories, chatFrame >>

\* A category name outside 2..100 characters, once stripped.
BadCategoryName(name) == Len(name) < MinCategoryName \/ Len(name) > MaxCategoryName

\* CategoryStates.name
OnCategoryName(g, text) ==
    /\ RouteMessage(fsm[g].state, text) = "category_name"
    /\ Sent
    /\ IF BadCategoryName(Strip(text))
       THEN Rejected(g, "category_name", text, "name too short or too long")
       ELSE /\ NewRowId(categories) <= MaxCategories
            /\ users' = GetOrCreateUser(users, g)
            /\ categories' = CreateCategory(categories, UserIdOf(users, g), Strip(text), "#3498db")
            /\ fsm' = [ fsm EXCEPT ![g] =
                          IF DataGet(fsm[g], "return_to_task_creation") = Some(TRUE)
                          THEN SetState(fsm[g], "TaskStates.category")
                          ELSE NoConversation ]
            /\ out' = Handled(g, "category_name", Message(text), "created")
            /\ UNCHANGED tasks
    /\ UNCHANGED chatFrame

\* cat_rename_<id>
OnRenameCategoryCallback(g, cb) ==
    /\ RouteCallback(fsm[g].state, cb) = "rename_category_callback"
    /\ Sent
    /\ fsm' = [ fsm EXCEPT ![g] =
                  SetState(UpdateData(fsm[g], "category_id", Some(IdOf(cb))),
                           "CategoryStates.rename") ]
    /\ out' = Handled(g, "rename_category_callback", cb, "enter the new name")
    /\ UNCHANGED << users, tasks, categories, chatFrame >>

\* CategoryStates.rename
OnCategoryRename(g, text) ==
    LET category_id == DataGet(fsm[g], "category_id")
    IN  /\ RouteMessage(fsm[g].state, text) = "category_rename"
        /\ Sent
        /\ IF BadCategoryName(Strip(text))
           THEN Rejected(g, "category_rename", text, "name too short or too long")
           ELSE /\ users' = GetOrCreateUser(users, g)
                /\ categories' = IF category_id = None THEN categories
                                 ELSE UpdateCategory(categories, category_id[1], UserIdOf(users, g),
                                                     "name" :> Some(Strip(text)))
                /\ fsm' = [ fsm EXCEPT ![g] = NoConversation ]
                /\ out' = Handled(g, "category_rename", Message(text), "renamed")
                /\ UNCHANGED tasks
        /\ UNCHANGED chatFrame

\* The cancel button's text or /cancel, when no earlier handler took it.
OnCancelAction(g, text) ==
    /\ RouteMessage(fsm[g].state, text) = "cancel_action"
    /\ Sent
    /\ fsm' = [ fsm EXCEPT ![g] = NoConversation ]
    /\ out' = Handled(g, "cancel_action", Message(text), "cancelled")
    /\ UNCHANGED << users, tasks, categories, chatFrame >>

\* The inline "cancel" button.
OnCancelCallback(g, cb) ==
    /\ RouteCallback(fsm[g].state, cb) = "cancel_callback"
    /\ Sent
    /\ fsm' = [ fsm EXCEPT ![g] = NoConversation ]
    /\ out' = Handled(g, "cancel_callback", cb, "cancelled")
    /\ UNCHANGED << users, tasks, categories, chatFrame >>

\* The chats that talk to the bot in SpecChat.
Chatters == {7}

\* Both users registered; user 2 (telegram id 7) owns a task and a category.
InitChat ==
    /\ users = << 1, 7 >>
    /\ tasks = CreateTask(<< >>, 2, Core(MinTitle, FALSE), None, "medium", None, None)
    /\ categories = CreateCategory(<< >>, 2, Core(MinTitle, FALSE), "#3498db")
    /\ subtasks = << >>
    /\ now = 0
    /\ events = 0
    /\ pc = "idle"
    /\ selected = << >>
    /\ idx = 1
    /\ results = << >>
    /\ quiet = TRUE
    /\ sentPrev = {}
    /\ arg = None
    /\ out = None
    /\ fsm = [ g \in TelegramIds |-> NoConversation ]
    /\ session = NoSessions

NextChat ==
    \/ \E g \in Chatters, text \in ChatTexts :
        \/ OnShowTasks(g, text)
        \/ OnEditTitleMessage(g, text)
        \/ OnEditDescriptionMessage(g, text)
        \/ OnEditDeadlineMessage(g, text)
        \/ OnAddTaskStart(g, text)
        \/ OnAddTaskTitle(g, text)
        \/ OnAddTaskDescription(g, text)
        \/ OnAddTaskDeadline(g, text)
        \/ OnCategoryName(g, text)
        \/ OnCategoryRename(g, text)
        \/ OnCancelAction(g, text)
    \/ \E g \in Chatters, cb \in ChatCallbacks :
        \/ OnEditTitleCallback(g, cb)
        \/ OnEditDescriptionCallback(g, cb)
        \/ OnEditPriorityCallback(g, cb)
        \/ OnEditPrioritySelect(g, cb)
        \/ OnEditDeadlineCallback(g, cb)
        \/ OnEditCategoryCallback(g, cb)
        \/ OnEditCategorySelect(g, cb)
        \/ OnAddTaskPriority(g, cb)
        \/ OnAddTaskCategory(g, cb)
        \/ OnNewCategory(g, cb)
        \/ OnRenameCategoryCallback(g, cb)
        \/ OnCancelCallback(g, cb)

SpecChat == InitChat /\ [][NextChat]_vars

\* ------------------------------------- database.py: get_session, by await
\* The store operations one statement at a time, on two connections.  Here a
\* User row keeps its username: users[i] = [telegram_id, username].
\* A unit of work: the operation, its arguments, the await it is at, the
\* database as its transaction left it (None before its first write) and
\* the operation's local variable.
UnitOfWork(fn, args, pos) ==
    [ fn |-> fn, args |-> args, pos |-> pos, work |-> None, local |-> None ]

\* The committed database, and the database as connection c reads it.
Committed == [ users |-> users, tasks |-> tasks, subtasks |-> subtasks ]
View(c) == IF session[c].work = None THEN Committed ELSE session[c].work[1]

\* A write waits while another connection's transaction holds the write lock.
WriteLockFree(c) ==
    \A d \in Connections \ {c} : IF session[d] = None THEN TRUE ELSE session[d].work = None

\* await session.commit(): the transaction's writes become the database.
SessionCommit(db, work) == IF work = None THEN db ELSE work[1]

\* SessionRollback as an except branch that commits would have it.
SessionRollbackKeeping(db, work) == IF work = None THEN db ELSE work[1]

\* await session.rollback(): the transaction's writes are dropped.
SessionRollback(db, work) == db

\* What an operation's caller got: its result, or the exception raised at pos.
Ended(c, error, value) ==
    [ conn |-> c, fn |-> session[c].fn, args |-> session[c].args, pos |-> session[c].pos,
      raised |-> error # "", error |-> error, value |-> value ]

\* What no unit of work touches.
sessionFrame == << now, sweepVars, quiet, sentPrev, arg, categories, fsm >>

\* The database becomes db and the unit of work on c is over.
Close(c, db) ==
    /\ UNCHANGED sessionFrame
    /\ users' = db.users
    /\ tasks' = db.tasks
    /\ subtasks' = db.subtasks
    /\ session' = [ session EXCEPT ![c] = None ]

\* async with get_session() as session: a unit of work opens on a free
\* connection.
Enter(c, fn, args, pos) ==
    /\ session[c] = None
    /\ events < MaxCalls
    /\ events' = events + 1
    /\ session' = [ session EXCEPT ![c] = UnitOfWork(fn, args, pos) ]
    /\ UNCHANGED << users, tasks, subtasks, out, sessionFrame >>

\* The body returned: commit, and the value reaches the caller.
Exit(c) ==
    /\ session[c] # None
    /\ session[c].pos = "commit"
    /\ Close(c, SessionCommit(Committed, session[c].work))
    /\ out' = Ended(c, "", session[c].local)
    /\ UNCHANGED events

\* except Exception: rollback and raise.
Raise(c, error) ==
    /\ Close(c, SessionRollback(Committed, session[c].work))
    /\ out' = Ended(c, error, None)
    /\ UNCHANGED events

\* Any await of an open unit of work, the commit too, can fail in the storage.
StorageFails(c) ==
    /\ session[c] # None
    /\ Raise(c, "OperationalError")

\* The body moves on: its transaction's database, its local, its next await.
Proceed(c, written, value, next) ==
    /\ session' = [ session EXCEPT ![c] = [ @ EXCEPT !.work = written, !.local = value, !.pos = next ] ]
    /\ UNCHANGED << users, tasks, subtasks, out, events, sessionFrame >>

At(c, fn, pos) == session[c] # None /\ session[c].fn = fn /\ session[c].pos = pos

\* select(User).where(User.telegram_id == telegram_id): the row's id, if any.
SelectUser(U, telegram_id) ==
    IF \E i \in 1..Len(U) : U[i].telegram_id = telegram_id
    THEN Some(CHOOSE i \in 1..Len(U) : U[i].telegram_id = telegram_id)
    ELSE None

\* UniqueViolated for a telegram_id column without unique=True.
UniqueNotEnforced(U, telegram_id) == FALSE

\* The INSERT meets a row of that telegram_id (unique=True).
UniqueViolated(U, telegram_id) == SelectUser(U, telegram_id) # None

\* get_or_create_user: the SELECT.
UserSelect(c) ==
    /\ At(c, "get_or_create_user", "select")
    /\ LET user == SelectUser(View(c).users, session[c].args.telegram_id)
       IN  Proceed(c, session[c].work, user, IF user = None THEN "flush" ELSE "commit")

\* get_or_create_user: session.add(user), flush and refresh.
UserFlush(c) ==
    /\ At(c, "get_or_create_user", "flush")
    /\ WriteLockFree(c)
    /\ IF UniqueViolated(View(c).users, session[c].args.telegram_id)
       THEN Raise(c, "IntegrityError")
       ELSE Proceed(c, Some([ View(c) EXCEPT !.users = Append(@, session[c].args) ]),
                    Some(Len(View(c).users) + 1), "commit")

\* create_task: session.add(task), flush and refresh.
TaskFlush(c) ==
    /\ At(c, "create_task", "flush")
    /\ WriteLockFree(c)
    /\ NewTaskId(View(c).tasks) <= MaxTasks
    /\ Proceed(c, Some([ View(c) EXCEPT !.tasks =
                           CreateTask(@, session[c].args.user_id, "abc", None, "medium", None, None) ]),
               Some(NewTaskId(View(c).tasks)), "commit")

\* delete_task: the SELECT, and session.delete(task) if it found the row.
TaskSelect(c) ==
    /\ At(c, "delete_task", "select")
    /\ LET found == TaskFound(View(c).tasks, session[c].args.task_id, session[c].args.user_id)
       IN  Proceed(c, session[c].work, found, IF found THEN "delete_subtasks" ELSE "commit")

\* delete_task: the flush deletes the subtasks first ...
SubtasksDelete(c) ==
    /\ At(c, "delete_task", "delete_subtasks")
    /\ WriteLockFree(c)
    /\ Proceed(c, Some([ View(c) EXCEPT !.subtasks =
                           [ id \in { i \in DOMAIN @ : @[i].task_id # session[c].args.task_id } |-> @[id] ] ]),
               session[c].local, "delete_task")

\* ... and then the task.  A DELETE that matches no row, the row having been
\* deleted by another unit of work since the SELECT, is only warned about.
TaskDelete(c) ==
    /\ At(c, "delete_task", "delete_task")
    /\ Proceed(c, Some([ View(c) EXCEPT !.tasks = Without(@, session[c].args.task_id) ]),
               session[c].local, "commit")

\* The calls made in SpecSession.
Usernames == {"ann", "bob"}
UserCalls == [ telegram_id : TelegramIds, username : Usernames ]
TaskCalls == [ task_id : {1}, user_id : {1, 2} ]

\* User 1 is registered and owns task 1, which has subtask 1.
InitSession ==
    /\ users = << [ telegram_id |-> 1, username |-> "ann" ] >>
    /\ tasks = CreateTask(<< >>, 1, "abc", None, "medium", None, None)
    /\ subtasks = CreateSubtask(<< >>, 1, "abc")
    /\ categories = << >>
    /\ now = 0
    /\ events = 0
    /\ pc = "idle"
    /\ selected = << >>
    /\ idx = 1
    /\ results = << >>
    /\ quiet = TRUE
    /\ sentPrev = {}
    /\ arg = None
    /\ out = None
    /\ fsm = [ g \in TelegramIds |-> NoConversation ]
    /\ session = NoSessions

NextSession ==
    \E c \in Connections :
        \/ \E args \in UserCalls : Enter(c, "get_or_create_user", args, "select")
        \/ \E args \in TaskCalls : Enter(c, "delete_task", args, "select")
        \/ Enter(c, "create_task", [ user_id |-> 1 ], "flush")
        \/ UserSelect(c)
        \/ UserFlush(c)
        \/ TaskFlush(c)
        \/ TaskSelect(c)
        \/ SubtasksDelete(c)
        \/ TaskDelete(c)
        \/ Exit(c)
        \/ StorageFails(c)

SpecSession == InitSession /\ [][NextSession]_vars

\* ------------------------------------------- the store, called directly
\* The operations of database.py called one after another, each on behalf of
\* a user (by User.id) with ids that may or may not name a row of that user.
UserIds == 1..2
CategoryRowIds == 1..MaxCategories
SubtaskRowIds == 1..MaxSubtasks

\* What a call returned: the function, the user and id it was called with and
\* whether it returned a row / True (found) or None / False.
Returned(fn, user_id, id, found) ==
    [ fn |-> fn, user_id |-> user_id, id |-> id, found |-> found ]

\* One more store call is made.
Op == events < MaxOps /\ events' = events + 1

\* Two registered users, each with one category and one task in it.  In
\* SpecStore arg[id] is the created_at of the latest task row of that id, as
\* a tick of the store's clock.
InitStore ==
    /\ users = << 1, 7 >>
    /\ tasks = CreateTask(CreateTask(<< >>, 1, "abc", None, "medium", Some(1), None),
                          2, "abc", None, "medium", Some(2), None)
    /\ categories = CreateCategory(CreateCategory(<< >>, 1, "home", "#3498db"),
                                   2, "home", "#3498db")
    /\ subtasks = << >>
    /\ now = 0
    /\ events = 0
    /\ pc = "idle"
    /\ selected = << >>
    /\ idx = 1
    /\ results = << >>
    /\ quiet = TRUE
    /\ sentPrev = {}
    /\ arg = << 0, 1 >>
    /\ out = None
    /\ fsm = [ g \in TelegramIds |-> NoConversation ]
    /\ session = NoSessions

CallCreateTask(u, category_id) ==
    /\ Op
    /\ NewTaskId(tasks) <= MaxTasks
    /\ tasks' = CreateTask(tasks, u, "abc", None, "medium", category_id, None)
    /\ arg' = With(arg, NewTaskId(tasks), events + 2)
    /\ out' = Returned("create_task", u, NewTaskId(tasks), TRUE)
    /\ UNCHANGED << users, now, sweepVars, quiet, sentPrev, catalogVars, fsm, session >>

\* get_user_tasks(user_id, status, category_id)
CallGetUserTasks(u, status, category_id) ==
    /\ Op
    /\ out' = [ fn |-> "get_user_tasks", user_id |-> u, status |-> status,
                category_id |-> category_id,
                value |-> GetUserTasks(tasks, u, status, category_id) ]
    /\ UNCHANGED << users, tasks, now, sweepVars, quiet, sentPrev, arg, catalogVars, fsm, session >>

CallGetTaskById(u, task_id) ==
    /\ Op
    /\ out' = Returned("get_task_by_id", u, task_id, GetTaskById(tasks, task_id, u) # None)
    /\ UNCHANGED << users, tasks, now, sweepVars, quiet, sentPrev, arg, catalogVars, fsm, session >>

CallUpdateTask(u, task_id, kwargs) ==
    /\ Op
    /\ tasks' = UpdateTask(tasks, task_id, u, kwargs, now)
    /\ out' = Returned("update_task", u, task_id, TaskFound(tasks, task_id, u))
    /\ UNCHANGED << users, now, sweepVars, quiet, sentPrev, arg, catalogVars, fsm, session >>

CallDeleteTask(u, task_id) ==
    /\ Op
    /\ tasks' = DeleteTask(tasks, task_id, u)
    /\ subtasks' = DeleteTaskSubtasks(subtasks, tasks, task_id, u)
    /\ out' = Returned("delete_task", u, task_id, TaskFound(tasks, task_id, u))
    /\ UNCHANGED << users, now, sweepVars, quiet, sentPrev, arg, categories, fsm, session >>

CallCreateCategory(u) ==
    /\ Op
    /\ NewRowId(categories) <= MaxCategories
    /\ categories' = CreateCategory(categories, u, "home", "#3498db")
    /\ out' = Returned("create_category", u, NewRowId(categories), TRUE)
    /\ UNCHANGED << users, tasks, now, sweepVars, quiet, sentPrev, arg, subtasks, fsm, session >>

CallGetCategoryById(u, category_id) ==
    /\ Op
    /\ out' = Returned("get_category_by_id", u, category_id,
                       GetCategoryById(categories, category_id, u) # None)
    /\ UNCHANGED << users, tasks, now, sweepVars, quiet, sentPrev, arg, catalogVars, fsm, session >>

CallUpdateCategory(u, category_id, kwargs) ==
    /\ Op
    /\ categories' = UpdateCategory(categories, category_id, u, kwargs)
    /\ out' = Returned("update_category", u, category_id,
                       CategoryFound(categories, category_id, u))
    /\ UNCHANGED << users, tasks, now, sweepVars, quiet, sentPrev, arg, subtasks, fsm, session >>

CallDeleteCategory(u, category_id) ==
    /\ Op
    /\ categories' = DeleteCategory(categories, category_id, u)
    /\ tasks' = DeleteCategoryTasks(tasks, categories, category_id, u)
    /\ out' = Returned("delete_category", u, category_id,
                       CategoryFound(categories, category_id, u))
    /\ UNCHANGED << users, now, sweepVars, quiet, sentPrev, arg, subtasks, fsm, session >>

\* create_subtask takes no user: u is only who asked for it.
CallCreateSubtask(u, task_id) ==
    /\ Op
    /\ NewRowId(subtasks) <= MaxSubtasks
    /\ subtasks' = CreateSubtask(subtasks, task_id, "step")
    /\ out' = Returned("create_subtask", u, NewRowId(subtasks), TRUE)
    /\ UNCHANGED << users, tasks, now, sweepVars, quiet, sentPrev, arg, categories, fsm, session >>

\* toggle_subtask takes no user: u is only who asked for it.
CallToggleSubtask(u, subtask_id) ==
    /\ Op
    /\ subtasks' = ToggleSubtask(subtasks, subtask_id)
    /\ out' = Returned("toggle_subtask", u, subtask_id, SubtaskFound(subtasks, subtask_id))
    /\ UNCHANGED << users, tasks, now, sweepVars, quiet, sentPrev, arg, categories, fsm, session >>

\* The keyword arguments the handlers pass to update_task / update_category.
TaskKwargs ==
    { "category_id" :> Some(c) : c \in CategoryRowIds }
        \cup { "title" :> Some("xyz"), "status" :> Some("completed") }
CategoryKwargs == { "name" :> Some("work"), "color" :> Some("#e74c3c") }

NextStore ==
    \E u \in UserIds :
        \/ \E c \in {None} \cup { Some(k) : k \in CategoryRowIds } : CallCreateTask(u, c)
        \/ \E id \in TaskIds : CallGetTaskById(u, id)
        \/ \E status \in {None, Some("pending"), Some("completed")},
              c \in {None} \cup { Some(k) : k \in CategoryRowIds } : CallGetUserTasks(u, status, c)
        \/ \E id \in TaskIds, kwargs \in TaskKwargs : CallUpdateTask(u, id, kwargs)
        \/ \E id \in TaskIds : CallDeleteTask(u, id)
        \/ CallCreateCategory(u)
        \/ \E id \in CategoryRowIds : CallGetCategoryById(u, id)
        \/ \E id \in CategoryRowIds, kwargs \in CategoryKwargs : CallUpdateCategory(u, id, kwargs)
        \/ \E id \in CategoryRowIds : CallDeleteCategory(u, id)
        \/ \E id \in TaskIds : CallCreateSubtask(u, id)
        \/ \E id \in SubtaskRowIds : CallToggleSubtask(u, id)

SpecStore == InitStore /\ [][NextStore]_vars

\* ------------------------------------------- database.py: update_task alone
\* Values a caller may give update_task for a key: None, the falsy values of
\* the column's type and ordinary ones.  "colour" is no attribute of Task.
PatchValues ==
    [ title       |-> {None, Some(""), Some("xyz")},
      description |-> {None, Some("")},
      status      |-> {None, Some("completed"), Some("in_progress")},
      category_id |-> {None, Some(0)},
      deadline    |-> {None, Some(Aware(Hours + 1))},
      colour      |-> {Some("red")} ]

\* **kwargs with one key.
OneKey(key) == { key :> v : v \in PatchValues[key] }

\* **kwargs with at most MaxKeys keys.
Patches ==
    {<< >>}
        \cup UNION { OneKey(k) : k \in DOMAIN PatchValues }
        \cup (IF MaxKeys < 2 THEN {}
              ELSE UNION { { a @@ b : a \in OneKey(kl[1]), b \in OneKey(kl[2]) } :
                             kl \in { p \in (DOMAIN PatchValues) \X (DOMAIN PatchValues) : p[1] # p[2] } })

\* User 1 has a task with every optional field filled and user 2 a bare one.
InitUpdate ==
    /\ users = << 1, 7 >>
    /\ tasks = CreateTask(CreateTask(<< >>, 1, "abc", Some("note"), "medium", Some(1),
                                     Some(Aware(Hours))),
                          2, "abc", None, "medium", None, None)
    /\ categories = CreateCategory(<< >>, 1, "home", "#3498db")
    /\ subtasks = << >>
    /\ now = 0
    /\ events = 0
    /\ pc = "idle"
    /\ selected = << >>
    /\ idx = 1
    /\ results = << >>
    /\ quiet = TRUE
    /\ sentPrev = {}
    /\ arg = None
    /\ out = None
    /\ fsm = [ g \in TelegramIds |-> NoConversation ]
    /\ session = NoSessions

\* update_task(task_id, user_id, **kwargs)
CallUpdateTaskWith(u, task_id, kwargs) ==
    /\ events < MaxPatches
    /\ events' = events + 1
    /\ tasks' = UpdateTask(tasks, task_id, u, kwargs, now)
    /\ out' = [ fn |-> "update_task", user_id |-> u, id |-> task_id, kwargs |-> kwargs,
                found |-> TaskFound(tasks, task_id, u) ]
    /\ UNCHANGED << users, now, sweepVars, quiet, sentPrev, arg, catalogVars, fsm, session >>

\* One hour passes between two calls.
Later ==
    /\ now < MaxNow
    /\ now' = now + 1
    /\ UNCHANGED << users, tasks, events, sweepVars, quiet, sentPrev, callVars, catalogVars, fsm, session >>

NextUpdate ==
    \/ \E u \in UserIds, task_id \in TaskIds, kwargs \in Patches : CallUpdateTaskWith(u, task_id, kwargs)
    \/ Later

SpecUpdate == InitUpdate /\ [][NextUpdate]_vars

\* --------------------------- database.py: get_user_statistics, by await
\* The four COUNT queries of one call, one await at a time on a connection,
\* while the handlers of other updates create, complete and delete tasks.
\* A handler's store call is taken whole, at its commit; a query reads the
\* database as committed when it runs.

\* The counts the call has so far, as its local variables hold them.
Counted(c) == session[c].local

\* total = select(func.count(Task.id)).where(Task.user_id == user_id)
StatsTotal(c) ==
    /\ At(c, "get_user_statistics", "total")
    /\ Proceed(c, session[c].work,
               << CountRows(View(c).tasks, session[c].args.user_id, AnyRow) >>, "completed")

\* completed = ... and_(Task.user_id == user_id, Task.status == "completed")
StatsCompleted(c) ==
    /\ At(c, "get_user_statistics", "completed")
    /\ Proceed(c, session[c].work,
               Append(Counted(c), CountRows(View(c).tasks, session[c].args.user_id, RowCompleted)),
               "pending")

\* pending = ... and_(Task.user_id == user_id, Task.status == "pending")
StatsPending(c) ==
    /\ At(c, "get_user_statistics", "pending")
    /\ Proceed(c, session[c].work,
               Append(Counted(c), CountRows(View(c).tasks, session[c].args.user_id, RowPending)),
               "overdue")

\* overdue = ... Task.status == "pending", Task.deadline < datetime.utcnow();
\* then the dict is built from the four locals and returned.
StatsOverdue(c) ==
    /\ At(c, "get_user_statistics", "overdue")
    /\ LET OverdueAt(row) == RowOverdue(row, now)
           overdue == CountRows(View(c).tasks, session[c].args.user_id, OverdueAt)
       IN  Proceed(c, session[c].work,
                   Some([ total           |-> Counted(c)[1],
                          completed       |-> Counted(c)[2],
                          pending         |-> Counted(c)[3],
                          overdue         |-> overdue,
                          completion_rate |-> CompletionRate(Counted(c)[2], Counted(c)[1]) ]),
                   "commit")

\* A handler of another update commits a store call.
Commits ==
    /\ events < MaxCalls
    /\ events' = events + 1
    /\ UNCHANGED << users, out, session, sessionFrame >>

\* create_task for user_id, with a deadline before or after the clock or none.
HandlerCreatesTask(user_id, deadline) ==
    /\ NewTaskId(tasks) <= MaxTasks
    /\ tasks' = CreateTask(tasks, user_id, "abc", None, "medium", None, deadline)
    /\ UNCHANGED subtasks
    /\ Commits

\* update_task(task_id, user_id, status="completed")
HandlerCompletesTask(user_id, task_id) ==
    /\ tasks' = UpdateTask(tasks, task_id, user_id, "status" :> Some("completed"), now)
    /\ UNCHANGED subtasks
    /\ Commits

\* delete_task(task_id, user_id)
HandlerDeletesTask(user_id, task_id) ==
    /\ tasks' = DeleteTask(tasks, task_id, user_id)
    /\ subtasks' = DeleteTaskSubtasks(subtasks, tasks, task_id, user_id)
    /\ Commits

\* User 1 owns one pending task without a deadline; the clock stands at
\* StatNow.
InitAggregate ==
    /\ users = << 1, 7 >>
    /\ tasks = CreateTask(<< >>, 1, "abc", None, "medium", None, None)
    /\ subtasks = << >>
    /\ categories = << >>
    /\ now = StatNow
    /\ events = 0
    /\ pc = "idle"
    /\ selected = << >>
    /\ idx = 1
    /\ results = << >>
    /\ quiet = TRUE
    /\ sentPrev = {}
    /\ arg = None
    /\ out = None
    /\ fsm = [ g \in TelegramIds |-> NoConversation ]
    /\ session = NoSessions

NextAggregate ==
    \/ \E c \in Connections :
        \/ Enter(c, "get_user_statistics", [ user_id |-> 1 ], "total")
        \/ StatsTotal(c)
        \/ StatsCompleted(c)
        \/ StatsPending(c)
        \/ StatsOverdue(c)
        \/ Exit(c)
    \/ \E user_id \in UserIds :
        \/ \E deadline \in { StatDeadlines[k] : k \in DOMAIN StatDeadlines } :
              HandlerCreatesTask(user_id, deadline)
        \/ \E task_id \in TaskIds :
              \/ HandlerCompletesTask(user_id, task_id)
              \/ HandlerDeletesTask(user_id, task_id)

SpecAggregate == InitAggregate /\ [][NextAggregate]_vars

\* The scheduler fires check_deadlines every hour and every await of a sweep
\* returns, so the sweep keeps stepping; a step that can succeed again and
\* again for a task does succeed for it in the end.  Chat events, the clock
\* and the failures are left free.
Fairness ==
    /\ WF_vars(Sweep)
    /\ \A id \in TaskIds :
          /\ SF_vars(pc = "user" /\ Cur.id = id /\ SweepGetUser)
          /\ SF_vars(pc = "send" /\ Cur.id = id /\ SweepSend)
          /\ SF_vars(pc = "mark" /\ Cur.id = id /\ SweepMark)

SpecLive == Init /\ [][Next]_vars /\ Fairness

\* ================================================================== claims

\* C1: every notification a sweep dispatches goes to the chat of the task's
\* owner: the chat id handed to send_message is the telegram_id of the User
\* whose id is the task's user_id.
NotifiesOwner ==
    /\ \A k \in DOMAIN results :
          results[k].sent => results[k].chat = Some(users[selected[k].user_id])
    /\ pc = "mark" => ChatIdOf(Cur) = users[Cur.user_id]

\* C2: get_tasks_due_soon(24) returns a task exactly when its status is
\* pending, it has a deadline, the deadline is at most 24 hours after now and
\* no reminder was sent for it.
DueSoonSelectsExactly ==
    (out # None /\ out.fn = "get_tasks_due_soon") =>
        ( (1 \in out.value) <=>
              /\ arg.status = "pending"
              /\ arg.deadline # None
              /\ arg.deadline[1].t <= now + 24
              /\ ~arg.reminder_sent )

\* C2 witness: a pending, unreminded task due exactly 24 hours from now was
\* returned.
DueSoonEdgeSelected ==
    /\ out # None
    /\ out.fn = "get_tasks_due_soon"
    /\ out.value = {1}
    /\ arg.deadline[1].t = now + 24

\* C3: a sweep that follows another with nothing happening in between does not
\* notify a task the first one dispatched.
NoSecondNotification ==
    /\ \A k \in DOMAIN results : results[k].sent => selected[k].id \notin sentPrev
    /\ pc = "mark" => Cur.id \notin sentPrev

\* C4: once the sweep has left a task whose message it sent, with no handler
\* running meanwhile, the task's reminder_sent is true.
SentImpliesMarked ==
    \A k \in DOMAIN results :
        (quiet /\ results[k].sent) =>
            /\ selected[k].id \in DOMAIN tasks
            /\ tasks[selected[k].id].reminder_sent

\* C5: a failing step of one task ends neither the loop nor check_deadlines:
\* the sweep returns only after every selected task has had its turn.
FailureIsolated ==
    /\ Len(results) <= Len(selected)
    /\ pc = "return" => Len(results) = Len(selected)
    /\ pc \in {"user", "send", "mark"} => (idx = Len(results) + 1 /\ idx <= Len(selected))

\* C5 witness: the first of two selected tasks failed and the second was
\* still sent and marked.
SecondSentAfterFailure ==
    /\ pc = "return"
    /\ Len(results) = 2
    /\ results[1].raised # "none"
    /\ results[2].sent
    /\ results[2].marked

\* C6: a task whose dispatch failed keeps reminder_sent false through the
\* sweep, has one turn in it, and is due soon again when its status and
\* deadline are as they were.
FailedStaysEligible ==
    /\ \A a, b \in DOMAIN selected : a # b => selected[a].id # selected[b].id
    /\ \A k \in DOMAIN results :
          (results[k].raised = "send_message" /\ selected[k].id \in DOMAIN tasks) =>
              /\ ~tasks[selected[k].id].reminder_sent
              /\ ( /\ tasks[selected[k].id].status = "pending"
                   /\ tasks[selected[k].id].deadline = selected[k].deadline )
                 => selected[k].id \in GetTasksDueSoon(tasks, 24, now)

\* C6 witness: the sweep is over, a dispatch failed in it and that task would
\* be selected again.
FailedTaskDueAgain ==
    /\ pc = "return"
    /\ \E k \in DOMAIN results :
          /\ results[k].raised = "send_message"
          /\ selected[k].id \in GetTasksDueSoon(tasks, 24, now)

\* C7: while sweeps keep running and a dispatch that can succeed does succeed
\* in the end, no task stays due soon for ever: it is notified and its
\* reminder_sent becomes true, or its owner takes it out of the rule.
EventuallyNotified ==
    \A id \in TaskIds :
        []<>(~(id \in DOMAIN tasks /\ id \in GetTasksDueSoon(tasks, 24, now)))

\* C8: reminder_sent, once true, stays true in every step: a handler's
\* update_task and a sweep's mark_reminder_sent alike.
ReminderSentSticks ==
    [][ \A id \in DOMAIN tasks \cap DOMAIN tasks' :
            tasks[id].reminder_sent => tasks'[id].reminder_sent ]_vars

\* C8 witness: a reminded task was completed and given a deadline that no
\* sweep could have selected at this hour, so the edit came after selection.
RemindedThenEdited ==
    \E id \in DOMAIN tasks :
        /\ tasks[id].reminder_sent
        /\ tasks[id].status = "completed"
        /\ tasks[id].deadline # None
        /\ tasks[id].deadline[1] > now + 24

\* C9: completed_at is set in the step that first moves the status to
\* completed, to the time of that step, and no later step changes it; a
\* completed task always has it.
CompletedAtSetOnce ==
    /\ [](\A id \in DOMAIN tasks :
            tasks[id].status = "completed" => tasks[id].completed_at # None)
    /\ [][ \A id \in DOMAIN tasks \cap DOMAIN tasks' :
            /\ tasks[id].completed_at # None =>
                   tasks'[id].completed_at = tasks[id].completed_at
            /\ (tasks[id].completed_at = None /\ tasks'[id].completed_at # None) =>
                   /\ tasks[id].status # "completed"
                   /\ tasks'[id].status = "completed"
                   /\ tasks'[id].completed_at = Some(now) ]_vars

\* C9 witness: a task completed at hour 0 is still completed an hour and
\* three chat events later, with the timestamp of hour 0.
CompletedAtKept ==
    \E id \in DOMAIN tasks :
        /\ tasks[id].status = "completed"
        /\ tasks[id].completed_at = Some(0)
        /\ now = 1
        /\ events = 3

\* C10: with deadline, status and time fixed, the four tiers score
\* urgent < high < medium < low.
ScoreOrderedByTier ==
    (out # None /\ out.fn = "get_task_priority_score") =>
        /\ \A p \in Priorities : ~out.value[p].raised
        /\ out.value["urgent"].score < out.value["high"].score
        /\ out.value["high"].score < out.value["medium"].score
        /\ out.value["medium"].score < out.value["low"].score

\* C11: the deadline adds 10 x clamp(whole days until the deadline, 0, 30) to
\* the tier base: never less for a later deadline, the same at 40 days as at
\* 30, and nothing for a deadline in the past.
DeadlineAddsClampedDays ==
    (out # None /\ out.fn = "score_by_deadline") =>
        \A p \in Priorities :
            /\ ~out.base[p].raised
            /\ \A o \in DeadlineOffsets :
                  /\ ~out.value[p][o].raised
                  /\ out.value[p][o].score - out.base[p].score =
                        10 * (IF o < 0 THEN 0
                              ELSE IF o >= 30 * 24 THEN 30
                              ELSE o \div 24)
            /\ \A o1, o2 \in DeadlineOffsets :
                  o1 <= o2 => out.value[p][o1].score <= out.value[p][o2].score
            /\ out.value[p][40 * 24].score = out.value[p][30 * 24].score

\* C12: with tier, deadline and time fixed, an in_progress task scores exactly
\* 5 less than the same task pending.
InProgressScoresFiveLess ==
    (out # None /\ out.fn = "score_by_status") =>
        \A p \in Priorities :
            /\ ~out.value[p]["pending"].raised
            /\ ~out.value[p]["in_progress"].raised
            /\ out.value[p]["in_progress"].score = out.value[p]["pending"].score - 5

\* C13: of two pending urgent tasks, one due in 1 hour and one due in 10,
\* show_tasks lists the one due in 1 hour first, whichever was created first.
SoonerUrgentListedFirst ==
    ( /\ out # None
      /\ out.fn = "show_tasks"
      /\ arg.first.priority = "urgent"
      /\ arg.second.priority = "urgent"
      /\ {arg.first.due, arg.second.due} = {<< 1 >>, << 10 >>} ) =>
        /\ ~out.value.raised
        /\ out.value.list = IF arg.first.due = << 1 >> THEN << 1, 2 >> ELSE << 2, 1 >>

\* C14: a read, update or delete of an existing task, category or subtask
\* asked for by a user who does not own it returns not-found and changes no
\* table.
OwnerScoped ==
    [][ ( \/ /\ out'.fn \in {"get_task_by_id", "update_task", "delete_task"}
             /\ out'.id \in DOMAIN tasks
             /\ tasks[out'.id].user_id # out'.user_id
          \/ /\ out'.fn \in {"get_category_by_id", "update_category", "delete_category"}
             /\ out'.id \in DOMAIN categories
             /\ categories[out'.id].user_id # out'.user_id
          \/ /\ out'.fn = "toggle_subtask"
             /\ out'.id \in DOMAIN subtasks
             /\ subtasks[out'.id].task_id \in DOMAIN tasks
             /\ tasks[subtasks[out'.id].task_id].user_id # out'.user_id )
        => ( /\ ~out'.found
             /\ tasks' = tasks
             /\ categories' = categories
             /\ subtasks' = subtasks ) ]_vars

NoOrphanSubtask ==
    \A id \in DOMAIN subtasks : subtasks[id].task_id \in DOMAIN tasks

\* C18: validate_title accepts a title exactly when its text without the
\* surrounding whitespace has 3 to 255 characters and then returns that text;
\* an empty or blank title, a shorter one and a longer one are rejected, each
\* with a message of its own.
ValidateTitleTrimsAndBounds ==
    (out # None /\ out.fn = "validate_title") =>
        /\ out.value.ok <=> (3 <= Len(arg.core) /\ Len(arg.core) <= 255)
        /\ out.value.ok => out.value.value = arg.core
        /\ Len(arg.core) = 0 => out.value.value = "must not be empty"
        /\ Len(arg.core) \in 1..2 => out.value.value = "too short (3 characters at least)"
        /\ Len(arg.core) >= 256 => out.value.value = "too long (255 characters at most)"

\* C18 witness: a title of 255 characters typed with whitespace on both
\* sides and inside was accepted and returned without the sides.
PaddedLongestTitleAccepted ==
    /\ out # None
    /\ out.fn = "validate_title"
    /\ out.value.ok
    /\ arg.lead > 0
    /\ arg.trail > 0
    /\ Len(arg.core) = 255
    /\ \E k \in DOMAIN arg.core : arg.core[k] = " "
    /\ out.value.value = arg.core

\* A cancel input: the cancel button's text, /cancel, or the "cancel" callback.
IsCancelInput(update) ==
    IF "text" \in DOMAIN update THEN update.text \in {CancelButton, CancelCommand}
    ELSE update.prefix = "cancel"

\* C15: in whatever conversation state a chat is, a cancel input (the cancel
\* button's text, /cancel, the "cancel" callback) leaves that chat with no
\* state and no data, and leaves the users, tasks, categories and subtasks
\* as they were.
CancelClearsConversation ==
    [][ (events' # events /\ IsCancelInput(out'.update))
            => /\ fsm'[out'.chat] = NoConversation
               /\ << users, tasks, categories, subtasks >>' = << users, tasks, categories, subtasks >> ]_vars

\* C16: a task row appears only in the step add_task_deadline takes from
\* TaskStates.deadline with a title and a priority in the data and a text that
\* is /skip or holds a date; the row carries that title and priority.  No
\* other step of a conversation adds, removes or renumbers a task.
TaskWrittenOnlyAtDeadlineStep ==
    [][ (DOMAIN tasks' # DOMAIN tasks)
            => /\ out'.handler = "add_task_deadline"
               /\ fsm[out'.chat].state = "TaskStates.deadline"
               /\ DataGet(fsm[out'.chat], "title") # None
               /\ DataGet(fsm[out'.chat], "priority") # None
               /\ \/ out'.update.text = SkipCommand
                  \/ ParseDeadline(AsDeadlineText(out'.update.text)) # None
               /\ DOMAIN tasks' = DOMAIN tasks \cup {NewTaskId(tasks)}
               /\ Some(tasks'[NewTaskId(tasks)].title) = DataGet(fsm[out'.chat], "title")
               /\ Some(tasks'[NewTaskId(tasks)].priority) = DataGet(fsm[out'.chat], "priority")
               /\ \A task_id \in DOMAIN tasks : tasks'[task_id] = tasks[task_id] ]_vars

\* The wizard ran to its end: the last update was the deadline step's and the
\* task it created is in the store.
WizardCreatedTask ==
    /\ out # None
    /\ out.handler = "add_task_deadline"
    /\ out.reply = "created"
    /\ Cardinality(DOMAIN tasks) = 2
    /\ fsm[out.chat] = NoConversation

\* C17: a text validate_title rejects, sent in TaskStates.title or in
\* EditTaskStates.title, is answered with validate_title's message, and the
\* conversation state, its data and the store stay as they were.
RejectedTitleChangesNothing ==
    [][ (/\ events' # events
         /\ "text" \in DOMAIN out'.update
         /\ fsm[out'.chat].state \in {"TaskStates.title", "EditTaskStates.title"}
         /\ ~ValidateTitle(out'.update.text).ok)
            => /\ out'.reply = ValidateTitle(out'.update.text).value
               /\ fsm' = fsm
               /\ << users, tasks, categories, subtasks >>' = << users, tasks, categories, subtasks >> ]_vars

\* A title was just rejected in the edit flow, which is still waiting for one.
TitleRejectedWhileEditing ==
    /\ out # None
    /\ out.handler = "edit_title_message"
    /\ ~ValidateTitle(out.update.text).ok
    /\ out.reply = ValidateTitle(out.update.text).value
    /\ fsm[out.chat].state = "EditTaskStates.title"
    /\ DataGet(fsm[out.chat], "task_id") = Some(1)

\* C21: get_user_statistics(user) counts that user's tasks alone: total is
\* all of them, completed and pending those of that status, overdue the
\* pending ones whose deadline is earlier than now; a task with no deadline,
\* with a deadline on or after now, or in progress, completed or cancelled is
\* not overdue.
StatisticsCountOwnTasks ==
    (out # None /\ out.fn = "get_user_statistics") =>
        /\ out.value.total = arg.completed + arg.pendingPast + arg.pendingLater + arg.pendingOn
                                 + arg.pendingNone + arg.startedPast + arg.cancelledPast
        /\ out.value.completed = arg.completed
        /\ out.value.pending = arg.pendingPast + arg.pendingLater + arg.pendingOn + arg.pendingNone
        /\ out.value.overdue = arg.pendingPast

\* C21 witness: the user has overdue tasks and tasks of every kind that is
\* not overdue, and another user has overdue tasks too.
StatisticsOverMixedTable ==
    /\ out # None
    /\ out.fn = "get_user_statistics"
    /\ out.value.overdue = 2
    /\ arg.foreignPast > 0
    /\ \A kind \in DOMAIN arg : arg[kind] > 0

\* C22: the completion rate is completed / total x 100 to the nearest tenth
\* when the user has tasks (4 of 10 give 40.0), and 0 when the user has none.
CompletionRateRounded ==
    (out # None /\ out.fn = "get_user_statistics") =>
        /\ out.value.total = 0 => out.value.completion_rate = 0
        /\ out.value.total > 0 =>
              /\ 2 * (out.value.completion_rate * out.value.total - out.value.completed * 1000)
                     <= out.value.total
              /\ 2 * (out.value.completed * 1000 - out.value.completion_rate * out.value.total)
                     <= out.value.total
        /\ (out.value.total = 10 /\ out.value.completed = 4) => out.value.completion_rate = 400

\* C22 witness: 4 completed tasks of 10 gave 40.0.
FourOfTenGivesForty ==
    /\ out # None
    /\ out.fn = "get_user_statistics"
    /\ out.value.total = 10
    /\ out.value.completed = 4
    /\ out.value.completion_rate = 400

\* What an operation does to the database when it runs alone and completes.
AtomicEffect(fn, args, db) ==
    IF fn = "get_or_create_user"
    THEN [ db EXCEPT !.users = IF SelectUser(@, args.telegram_id) = None THEN Append(@, args) ELSE @ ]
    ELSE IF fn = "create_task"
    THEN [ db EXCEPT !.tasks = CreateTask(@, args.user_id, "abc", None, "medium", None, None) ]
    ELSE [ db EXCEPT !.tasks = DeleteTask(@, args.task_id, args.user_id),
                     !.subtasks = DeleteTaskSubtasks(@, db.tasks, args.task_id, args.user_id) ]

\* C23: the committed database changes only in the step in which a unit of
\* work that ran to its end commits, and then by the whole effect of its
\* operation; a unit of work that ends with an exception, raised at any of
\* its awaits, leaves the committed database as it was and hands the
\* exception to the caller.
UnitOfWorkAtomic ==
    [][ /\ (Committed' # Committed) =>
              \E c \in Connections :
                  /\ session[c] # None
                  /\ session[c].pos = "commit"
                  /\ session'[c] = None
                  /\ out'.conn = c
                  /\ ~out'.raised
                  /\ Committed' = AtomicEffect(session[c].fn, session[c].args, Committed)
        /\ \A c \in Connections :
              IF session[c] # None /\ session'[c] = None
              THEN out'.conn = c /\ (out'.raised => Committed' = Committed)
              ELSE TRUE ]_vars

\* C23 witness: delete_task failed after its transaction had deleted the
\* subtasks and before it deleted the task; the caller got the exception and
\* the task and its subtask are still in the database.
RolledBackMidway ==
    /\ out # None
    /\ out.fn = "delete_task"
    /\ out.pos = "delete_task"
    /\ out.raised
    /\ 1 \in DOMAIN tasks
    /\ 1 \in DOMAIN subtasks

\* C25: a call of get_or_create_user that the storage does not fail returns
\* a User row of the telegram_id asked for, which is the only row of that
\* telegram_id, and leaves the rows there were as they were.
GetOrCreateUserReturnsUser ==
    [][ \A c \in Connections :
          IF session[c] # None /\ session'[c] = None
          THEN (session[c].fn = "get_or_create_user" /\ out'.error # "OperationalError") =>
                  /\ ~out'.raised
                  /\ users'[out'.value[1]].telegram_id = session[c].args.telegram_id
                  /\ \A i, j \in 1..Len(users') :
                        users'[i].telegram_id = users'[j].telegram_id => i = j
                  /\ \A i \in 1..Len(users) : users'[i] = users[i]
          ELSE TRUE ]_vars

\* C24: get_user_tasks(user, status, category) returns, each once, the tasks
\* of that user that have the status and the category asked for, if any was
\* asked for, later created before earlier created; and the task create_task
\* has just made is in that user's unfiltered list, with status pending.
GetUserTasksFiltersAndOrders ==
    /\ (out # None /\ out.fn = "get_user_tasks") =>
          /\ { out.value[k] : k \in DOMAIN out.value } =
                { id \in DOMAIN tasks :
                    /\ tasks[id].user_id = out.user_id
                    /\ out.status = None \/ Some(tasks[id].status) = out.status
                    /\ out.category_id = None \/ tasks[id].category_id = out.category_id }
          /\ \A k, l \in DOMAIN out.value : k < l => arg[out.value[k]] > arg[out.value[l]]
    /\ (out # None /\ out.fn = "create_task") =>
          /\ \E k \in DOMAIN GetUserTasks(tasks, out.user_id, None, None) :
                GetUserTasks(tasks, out.user_id, None, None)[k] = out.id
          /\ tasks[out.id].status = "pending"

\* C24 witness: a user's two tasks, listed without a filter, the later one
\* first; the later one took the place of a task another user deleted.
TwoTasksListedLatestFirst ==
    /\ out # None
    /\ out.fn = "get_user_tasks"
    /\ out.status = None
    /\ out.category_id = None
    /\ out.value = << 2, 1 >>
    /\ arg[2] > 1

\* C26: in a deployment without an LLM credential each of the four advisory
\* handlers (advice, day plan, analysis, schedule optimization) shows the one
\* configuration-missing message and sends the external service nothing.
NoCredentialNoRequest ==
    (out # None /\ arg.openai_api_key = "") =>
        /\ out.fn \in {"ai_advice", "ai_plan_day", "ai_analyze", "ai_optimize"}
        /\ out.value = NotConfigured
        /\ out.requests = << >>

\* C26 witness: schedule optimization asked for without a credential, by a
\* user who has pending tasks.
OptimizeAskedWithoutCredential ==
    /\ out # None
    /\ out.fn = "ai_optimize"
    /\ arg.openai_api_key = ""
    /\ arg.counts.urgentSoon = 1
    /\ out.value = NotConfigured

\* Task a goes before task b in the day plan, or may go on either side.
NotAfterInPlan(a, b) ==
    \/ PriorityRank(a.priority) < PriorityRank(b.priority)
    \/ /\ a.priority = b.priority
       /\ \/ b.deadline = None
          \/ a.deadline # None /\ a.deadline[1] <= b.deadline[1]

\* C27: the tasks the day-plan prompt lists are pending tasks of the user,
\* each once, in order of priority (urgent, high, medium, low) and within a
\* priority in order of deadline with those without one last, and they are
\* the first 15 in that order: no pending task left out goes strictly before
\* a listed one.  Status in_progress and the distance of the deadline from
\* now play no part.
PlanDayListsFirstFifteen ==
    (out # None /\ out.fn = "ai_plan_day" /\ arg.openai_api_key # "") =>
        LET listed  == out.requests[1].listed
            pending == { id \in DOMAIN tasks : tasks[id].user_id = 1 /\ tasks[id].status = "pending" }
        IN  /\ \A k \in DOMAIN listed : listed[k] \in pending
            /\ \A k, l \in DOMAIN listed : k < l =>
                  /\ listed[k] # listed[l]
                  /\ NotAfterInPlan(tasks[listed[k]], tasks[listed[l]])
            /\ Len(listed) = Min2(Cardinality(pending), 15)
            /\ \A id \in pending : \A k \in DOMAIN listed :
                  (\A l \in DOMAIN listed : listed[l] # id) =>
                      NotAfterInPlan(tasks[listed[k]], tasks[id])

\* C27 witness: more than 15 pending tasks; the urgent one without a deadline
\* is listed last, after 14 urgent ones due later than the low-priority task
\* and the high-priority tasks, which are cut off, as is nothing else.
PlanCutAtFifteen ==
    /\ out # None
    /\ out.fn = "ai_plan_day"
    /\ arg.openai_api_key # ""
    /\ arg.counts.lowSoon = 1
    /\ arg.counts.highLate = 1
    /\ arg.counts.urgentNone = 1
    /\ arg.counts.urgentLate + arg.counts.urgentSoon = 14
    /\ Len(out.requests[1].listed) = 15
    /\ tasks[out.requests[1].listed[15]].deadline = None

\* C28: the tasks a sweep takes up are those that were pending, had a deadline
\* at most 24 hours ahead and no reminder sent when it selected them; whatever
\* a user did to a task since, its turn comes, its dispatch is attempted (the
\* sweep leaves the send step only with the message out or with send_message
\* having raised), and marking it sets reminder_sent on its row and changes
\* nothing else of that row or of any other row.
SweepNotifiesSelectedAndOnlyMarks ==
    [][ /\ (pc = "idle" /\ pc' # "idle") =>
              \A k \in DOMAIN selected' :
                  /\ selected'[k].id \in DOMAIN tasks
                  /\ tasks[selected'[k].id].status = "pending"
                  /\ tasks[selected'[k].id].deadline # None
                  /\ tasks[selected'[k].id].deadline[1] <= now + 24
                  /\ ~tasks[selected'[k].id].reminder_sent
        /\ (pc # "idle" /\ pc' # "idle") => selected' = selected
        /\ (pc = "send" /\ pc' # "send") =>
              \/ pc' = "mark"
              \/ /\ Len(results') = Len(results) + 1
                 /\ results'[Len(results')].raised = "send_message"
        /\ (pc = "mark" /\ Len(results') = Len(results) + 1 /\ results'[Len(results')].marked) =>
              /\ results'[Len(results')].sent
              /\ DOMAIN tasks' = DOMAIN tasks
              /\ \A id \in DOMAIN tasks :
                    tasks'[id] = IF id = selected[idx].id
                                 THEN [ tasks[id] EXCEPT !.reminder_sent = TRUE ]
                                 ELSE tasks[id]
      ]_vars

\* C28 witness: two chat events so far, one that created a task and, after
\* the running sweep had selected it, one that completed it; the sweep has
\* sent and marked it since, and the row is completed with reminder_sent set.
CompletedMeanwhileStillNotified ==
    /\ events = 2
    /\ pc # "idle"
    /\ ~quiet
    /\ \E k \in DOMAIN results :
          /\ results[k].sent
          /\ results[k].marked
          /\ selected[k].id \in DOMAIN tasks
          /\ tasks[selected[k].id].status = "completed"
          /\ tasks[selected[k].id].completed_at # None
          /\ tasks[selected[k].id].reminder_sent

\* How far a conversation is in creating a task: 1..5 for the states title,
\* description, priority, category, deadline; 4 also while it names a new
\* category it asked for in the category state; 0 otherwise.
WizardStep(conv) ==
    CASE conv.state = "TaskStates.title"       -> 1
      [] conv.state = "TaskStates.description" -> 2
      [] conv.state = "TaskStates.priority"    -> 3
      [] conv.state = "TaskStates.category"    -> 4
      [] conv.state = "TaskStates.deadline"    -> 5
      [] conv.state = "CategoryStates.name"
         /\ DataGet(conv, "return_to_task_creation") = Some(TRUE) -> 4
      [] OTHER -> 0

\* The handler that takes a conversation from a state to the next one.
StepHandler(state) ==
    CASE state = "TaskStates.title"       -> "add_task_title"
      [] state = "TaskStates.description" -> "add_task_description"
      [] state = "TaskStates.priority"    -> "add_task_priority"
      [] state = "TaskStates.category"    -> "add_task_category"
      [] OTHER -> "none"

\* C29: a conversation enters the title state only through add_task_start; it
\* enters each later state of title, description, priority, category,
\* deadline only from the state before it, through that state's handler, with
\* everything collected so far in its data; from the category state it may
\* leave to name a new category and come back to the category state through
\* category_name; and no step between two of these states changes the title,
\* description or priority already collected.
WizardStatesInOrder ==
    [][ \A g \in Chatters :
          LET old == fsm[g]
              new == fsm'[g]
          IN  /\ (new.state = "TaskStates.title" /\ old.state # new.state) =>
                    out'.handler = "add_task_start"
              /\ (WizardStep(new) > 1 /\ old.state # new.state) =>
                    /\ out'.handler # "add_task_start"
                    /\ \/ /\ WizardStep(new) = WizardStep(old) + 1
                          /\ out'.handler = StepHandler(old.state)
                       \/ /\ old.state = "TaskStates.category" /\ new.state = "CategoryStates.name"
                          /\ out'.handler = "new_category"
                       \/ /\ old.state = "CategoryStates.name" /\ new.state = "TaskStates.category"
                          /\ WizardStep(old) = 4
                          /\ out'.handler = "category_name"
              /\ WizardStep(new) > 1 => "title" \in DOMAIN new.data /\ DataGet(new, "title") # None
              /\ WizardStep(new) > 2 => "description" \in DOMAIN new.data
              /\ WizardStep(new) > 3 => "priority" \in DOMAIN new.data /\ DataGet(new, "priority") # None
              /\ (WizardStep(old) > 0 /\ WizardStep(new) > 0 /\ out'.handler # "add_task_start") =>
                    \A k \in {"title", "description", "priority"} \cap DOMAIN old.data :
                        k \in DOMAIN new.data /\ new.data[k] = old.data[k]
      ]_vars

\* C29 witness: a conversation that gave a title, a description and a
\* priority, asked for a new category in the category state and named it is
\* back in the category state with the three of them in its data.
BackInCategoryStepWithData ==
    /\ out # None
    /\ out.handler = "category_name"
    /\ out.reply = "created"
    /\ fsm[7].state = "TaskStates.category"
    /\ DataGet(fsm[7], "title") = Some(Strip(GoodTitle))
    /\ DataGet(fsm[7], "description") # None
    /\ DataGet(fsm[7], "priority") # None

\* C30: when an edit handler is given the clearing input (/skip for the
\* description, /skip for the deadline, set_category_none for the category)
\* and answers that the task was changed, the stored task has no value in
\* that field.
ClearingOptionClearsField ==
    [][ \A g \in Chatters :
          LET task_id == DataGet(fsm[g], "task_id")
              cleared(handler, field) ==
                  (out'.chat = g /\ out'.handler = handler /\ out'.reply = "changed") =>
                      tasks'[task_id[1]][field] = None
          IN  /\ (fsm[g].state = "EditTaskStates.description" /\ out'.update = Message(SkipCommand)) =>
                    cleared("edit_description_message", "description")
              /\ (fsm[g].state = "EditTaskStates.deadline" /\ out'.update = Message(SkipCommand)) =>
                    cleared("edit_deadline_message", "deadline")
              /\ (fsm[g].state = "EditTaskStates.category"
                    /\ out'.update = Callback("set_category_", "none")) =>
                    cleared("edit_category_select", "category_id")
      ]_vars

\* C31: update_task on a task of the caller gives each column that is
\* supplied with a value other than None that value - an empty string and a
\* zero too -, stamps completed_at when the status supplied is completed and
\* there was no stamp, and leaves every other column of the row, every column
\* supplied as None and every other row as it was; on a task that is missing
\* or belongs to another user it changes nothing.
UpdateTaskChangesSuppliedOnly ==
    [][ events' = events + 1 =>
          LET kw == out'.kwargs
              given(key) == key \in DOMAIN kw /\ kw[key] # None
          IN  /\ DOMAIN tasks' = DOMAIN tasks
              /\ \A id \in DOMAIN tasks : id # out'.id => tasks'[id] = tasks[id]
              /\ ~out'.found => tasks' = tasks
              /\ out'.found =>
                    \A key \in DOMAIN tasks[out'.id] :
                        tasks'[out'.id][key] =
                            IF key = "deadline" /\ given("deadline") THEN Some(kw["deadline"][1].t)
                            ELSE IF key \in {"category_id", "description"} /\ given(key) THEN kw[key]
                            ELSE IF key \in {"title", "status"} /\ given(key) THEN kw[key][1]
                            ELSE IF /\ key = "completed_at"
                                    /\ given("status")
                                    /\ kw["status"] = Some("completed")
                                    /\ tasks[out'.id].completed_at = None
                                 THEN Some(now)
                            ELSE tasks[out'.id][key]
      ]_vars

\* C31 witness: a call gave the owner's task an empty title and None for the
\* description; the title is empty and the description is the one it had.
EmptyTitleAppliedNoneIgnored ==
    /\ out # None
    /\ out.fn = "update_task"
    /\ out.found
    /\ out.kwargs = ("title" :> Some("")) @@ ("description" :> None)
    /\ tasks[out.id].title = ""
    /\ tasks[out.id].description = Some("note")

\* C32: no sweep selects a task whose reminder_sent is true, none dispatches
\* the message of a task whose row has it true at that moment, and an edit
\* of the deadline of such a task leaves it true: a task that was sent and
\* marked is not notified again, whatever its deadline becomes.
MarkedNeverNotifiedAgain ==
    [][ /\ (pc = "idle" /\ pc' # "idle") =>
              \A k \in DOMAIN selected' : ~tasks[selected'[k].id].reminder_sent
        /\ (pc = "send" /\ pc' = "mark" /\ Cur.id \in DOMAIN tasks) =>
              ~tasks[Cur.id].reminder_sent
        /\ \A id \in DOMAIN tasks \cap DOMAIN tasks' :
              (tasks[id].reminder_sent /\ tasks'[id].deadline # tasks[id].deadline) =>
                  tasks'[id].reminder_sent
      ]_vars

\* C32 witness: a sweep has just found nothing to do although a pending task
\* is due in 24 hours: the task is marked, and the deadline it has now is not
\* the one it was created with or cannot have been selected when it was made.
MarkedTaskDueSoonNotSelected ==
    /\ pc = "return"
    /\ selected = << >>
    /\ now = 1
    /\ events = 2
    /\ \E id \in DOMAIN tasks :
          /\ tasks[id].reminder_sent
          /\ tasks[id].status = "pending"
          /\ tasks[id].deadline = Some(Hours + 1)

\* C33: a step of the sweep (one that is neither a chat event nor the clock)
\* leaves the User, Category and Subtask rows as they are, creates and deletes
\* no Task row, and changes a Task row only by setting reminder_sent on a row
\* whose id it selected.
SweepOnlySetsReminderSent ==
    [][ (events' = events /\ now' = now) =>
          /\ users' = users
          /\ categories' = categories
          /\ subtasks' = subtasks
          /\ DOMAIN tasks' = DOMAIN tasks
          /\ \A id \in DOMAIN tasks :
                \/ tasks'[id] = tasks[id]
                \/ /\ \E k \in DOMAIN selected : selected[k].id = id
                   /\ tasks'[id] = [ tasks[id] EXCEPT !.reminder_sent = TRUE ]
      ]_vars

\* C34: the category a task refers to, if any, is a Category row that exists
\* and belongs to the user the task belongs to.
CategoryOfTaskIsOwners ==
    \A id \in DOMAIN tasks :
        tasks[id].category_id # None =>
            /\ tasks[id].category_id[1] \in DOMAIN categories
            /\ categories[tasks[id].category_id[1]].user_id = tasks[id].user_id

\* C35: a task row appears with status pending, its status is always pending,
\* in_progress or completed, a step never takes a status that is not pending
\* back to pending, and a sweep selects only rows whose status is pending.
StatusNeverBackToPending ==
    [][ /\ \A id \in DOMAIN tasks' \ DOMAIN tasks : tasks'[id].status = "pending"
        /\ \A id \in DOMAIN tasks' : tasks'[id].status \in {"pending", "in_progress", "completed"}
        /\ \A id \in DOMAIN tasks \cap DOMAIN tasks' :
              tasks[id].status # "pending" => tasks'[id].status # "pending"
        /\ (pc = "idle" /\ pc' # "idle") =>
              \A k \in DOMAIN selected' : tasks[selected'[k].id].status = "pending"
      ]_vars

\* C35 witness: a sweep has just found nothing to do although a task that no
\* reminder was sent for is due within 24 hours: the task is in progress.
StartedTaskDueSoonNotSelected ==
    /\ pc = "return"
    /\ selected = << >>
    /\ \E id \in DOMAIN tasks :
          /\ tasks[id].status = "in_progress"
          /\ ~tasks[id].reminder_sent
          /\ tasks[id].deadline # None
          /\ tasks[id].deadline[1] <= now + Hours

\* C36: when the row a sweep selected is gone by the time the sweep marks it
\* - no row has its id, or the row that has it now belongs to another user -
\* the mark changes no task row, and whether the mark returns or not the
\* sweep goes on with the next selected task, or returns after the last.
MarkOfDeletedTaskIsNoOp ==
    [][ (pc = "mark" /\ pc' # "mark"
           /\ (Cur.id \notin DOMAIN tasks \/ tasks[Cur.id].user_id # Cur.user_id)) =>
          /\ tasks' = tasks
          /\ idx' = idx + 1
          /\ pc' = IF idx < Len(selected) THEN "user" ELSE "return"
      ]_vars

\* C37: of two tasks of different tiers the one of the more urgent tier scores
\* strictly lower, whatever the deadline and the status of each, and every
\* score lies between rank x 1000 - 5 and rank x 1000 + 300.
MoreUrgentTierScoresLower ==
    (out # None /\ out.fn = "score_across_tiers") =>
        /\ \A a \in DOMAIN out.value :
              /\ ~out.value[a].raised
              /\ out.value[a].score >= PriorityRank(a.priority) * 1000 - 5
              /\ out.value[a].score <= PriorityRank(a.priority) * 1000 + 300
        /\ \A a, b \in DOMAIN out.value :
              PriorityRank(a.priority) < PriorityRank(b.priority) =>
                  out.value[a].score < out.value[b].score

StoredTitlesTrimmedAndBounded ==
    \A id \in DOMAIN tasks :
        /\ Strip(tasks[id].title) = tasks[id].title
        /\ Len(tasks[id].title) >= 3
        /\ Len(tasks[id].title) <= 255

\* C39 witness: a task created by the wizard from a title typed with a
\* leading blank, stored without the blank.
TypedTitlesStoredTrimmed ==
    /\ Strip(GoodTitle) # GoodTitle
    /\ Cardinality(DOMAIN tasks) = 2
    /\ \E id \in DOMAIN tasks : tasks[id].title = Strip(GoodTitle)

\* C40: every dict get_user_statistics returns has overdue <= pending and
\* completed + pending <= total, also when handlers create, complete and
\* delete tasks between its four count queries.
StatisticsConsistentWhenInterleaved ==
    (out # None /\ out.fn = "get_user_statistics" /\ ~out.raised) =>
        /\ out.value[1].overdue <= out.value[1].pending
        /\ out.value[1].completed + out.value[1].pending <= out.value[1].total

====
